---- MODULE Spec2Model ----
(***************************************************************************)
(* A model of the noise S/Kademlia overlay: the routing table of           *)
(* skademlia/dht, the discovery service's table maintenance, and the node  *)
(* dispatcher of protocol.Node (peer registry, Send, Request).             *)
(*                                                                         *)
(* The specifications of the module:                                       *)
(*   SpecRoutes  the routing table as a sequence of calls                  *)
(*   Spec        the node dispatcher under concurrent callers              *)
(*   SpecInbound the node dispatcher fed with inbound frames               *)
(*   SpecRecv    the receive task of one message adapter                   *)
(*   SpecDiscovery  the discovery service handling inbound messages        *)
(*   SpecIdentity   the constructors of the identity adapter               *)
(*   SpecSetup      the setup exchange of the two message adapters         *)
(*   SpecBroadcast  BroadcastRandomly over a registry of slots             *)
(*   SpecPrefixDiff PrefixDiff as a function of its arguments              *)
(*   SpecNonce      the nonces of concurrent Requests                      *)
(*   SpecFair       the dispatcher's Send callers under a fair scheduler   *)
(*   SpecLocks      one bucket, its lock and concurrent callers            *)
(*   SpecServices   processMessageBody's loop over the services            *)
(*   SpecAccept     ConnectionAdapter.Accept's loop over connections       *)
(*   SpecRetry      Send on a node whose discovery service keeps the table *)
(*   SpecReply      one Request, its reply channel and the bodies for it   *)
(***************************************************************************)
EXTENDS Integers, Sequences, FiniteSets, TLC

VARIABLES
    \* ---- RoutingTable (skademlia/dht) ----
    self,        \* RoutingTable.self
    buckets,     \* RoutingTable.buckets: bucket index -> list, front first
    opts,        \* RoutingTable.opts
    zeroSlack,   \* how far below 8*len PrefixLen places an all-zero slice
    panicked,    \* a call on the table dereferenced a nil bucket or element
    recency,     \* history: per bucket, the stored ids by last confirmation
    ret,         \* the last call on the table and what it returned
    \* ---- protocol.Node ----
    peers,       \* Node.peers: the registry, a set of slots [key, kind, ref]
    pend,        \* the PendingPeer objects created so far; closes counts
                 \* the close(peer.Done) executed on each (history)
    sess,        \* the EstablishedPeer objects created so far
    installed,   \* history: per PendingPeer, the session its creator stored
    Requests,    \* Node.Requests: the keys (recipient, nonce) registered
    RequestNonce,\* Node.RequestNonce
    replies,     \* per request nonce, the bodies buffered in RequestState.data
    cancelled,   \* Controller.Cancellation is closed
    call,        \* per calling goroutine: its call on the node and its locals
    inbound,     \* history: the last callback of a receiver and where it led
    \* ---- base.MessageAdapter, one connection and its receive task ----
    conn,        \* what the connection holds unread, oldest first
    arrived,     \* history: everything that arrived on the connection
    delivered,   \* history: the callbacks runRecvWorker made, in order
    worker,      \* where the goroutine of runRecvWorker stands
    \* ---- discovery.Service ----
    handled,     \* history: the last message processMsg handled
    \* ---- skademlia.IdentityAdapter ----
    identity,    \* the last identity a constructor was asked for
    \* ---- base.MessageAdapter, the setup of one connection ----
    setup,       \* the stream and the two constructors running on it
    \* ---- protocol.Node.BroadcastRandomly ----
    bcast,       \* a registry and the last broadcast over it
    \* ---- peer.PrefixDiff ----
    diff,        \* two slices, a bit count and PrefixDiff of them
    \* ---- protocol.Node.Request, the nonces ----
    drawn,       \* history: the nonces assigned, and the one each caller holds
    \* ---- one Bucket of the routing table under concurrent callers ----
    guarded,     \* the list, its RWMutex, the callers, the last mutation
    \* ---- protocol.Node.services and processMessageBody's loop ----
    forward,     \* the registered services and the last message forwarded
    \* ---- skademlia.ConnectionAdapter.Accept ----
    accept,      \* the goroutine's copy of the local peer, what it delivered
    \* ---- protocol.RequestState of one Request ----
    request      \* the requester, its channel, the senders waiting on it

routeVars == <<self, buckets, opts, zeroSlack, panicked, recency, ret>>
recvVars == <<conn, arrived, delivered, worker>>
otherVars == <<identity, setup, bcast, diff, drawn, guarded, forward,
               accept, request>>
nodeVars == <<peers, pend, sess, installed, Requests, RequestNonce, replies,
              cancelled, call, inbound, recvVars, handled, otherVars>>
vars == <<routeVars, nodeVars>>

----------------------------------------------------------------------------
(* Bounds of the model.                                                    *)

\* Largest custom bucket size handed to WithBucketSize.
MaxBucketSize == 2
\* Largest count handed to FindClosestPeers.
MaxCount == 2
\* EstablishedPeer objects created in a run (dialled or accepted).
MaxSessions == 2
\* PendingPeer objects created in a run.
MaxPending == 1
\* Requests issued in a run.
MaxNonce == 1
\* Arrivals on the connection of the receive task (frames, its end).
MaxFrames == 3
\* Peers one FindNode of the discovery service returns.
MaxFound == 2

(* Program constants.                                                      *)
defaultBucketSize == 16
\* discovery: how many bits of the prefix are checked for differing bits.
prefixDiffLength == 128
\* discovery: how many of them have to differ.
prefixDiffMin == 32

----------------------------------------------------------------------------
(* Byte slices: sequences of 0..255.                                       *)

RECURSIVE XorBits(_, _, _)
XorBits(a, b, n) ==
    IF n = 0 THEN 0
    ELSE 2 * XorBits(a \div 2, b \div 2, n - 1) + ((a + b) % 2)

\* The exclusive or of two bytes, tabulated once.
XorByte == [a \in 0..255 |-> [b \in 0..255 |-> XorBits(a, b, 8)]]

\* peer.Xor: bytewise exclusive or of two slices of one length.
Xor(a, b) == [i \in 1..Len(a) |-> XorByte[a[i]][b[i]]]

\* math/bits.LeadingZeros8
LeadingZeros8(b) ==
    IF b = 0 THEN 8
    ELSE CHOOSE z \in 0..7 : b \div (2 ^ (7 - z)) = 1

RECURSIVE PrefixLenFrom(_, _)
PrefixLenFrom(x, i) ==
    IF i > Len(x) THEN Len(x) * 8 - zeroSlack
    ELSE IF x[i] # 0 THEN (i - 1) * 8 + LeadingZeros8(x[i])
    ELSE PrefixLenFrom(x, i + 1)

\* peer.PrefixLen: the number of leading zero bits.  For a slice with no set
\* bit the glossary gives 8*len (zeroSlack = 0); NewRoutingTable stores self,
\* whose distance to self is all zero, in one of its 8*len buckets, which
\* needs a value below 8*len (zeroSlack = 1, the last bucket).  Both
\* readings are kept.
PrefixLen(x) == PrefixLenFrom(x, 1)

\* PrefixDiff counting whole bytes only: the bits of a byte the count ends
\* in are all counted.
RECURSIVE PrefixDiffFrom_WholeBytes(_, _, _)
PrefixDiffFrom_WholeBytes(x, i, n) ==
    IF i > Len(x) \/ n <= 0 THEN 0
    ELSE (LET RECURSIVE Ones(_)
              Ones(b) == IF b = 0 THEN 0 ELSE (b % 2) + Ones(b \div 2)
          IN Ones(x[i])) + PrefixDiffFrom_WholeBytes(x, i + 1, n - 8)

\* The number of set bits of a byte.
RECURSIVE OnesCount8(_)
OnesCount8(b) == IF b = 0 THEN 0 ELSE (b % 2) + OnesCount8(b \div 2)

RECURSIVE PrefixDiffFrom(_, _, _)
PrefixDiffFrom(x, i, n) ==
    IF i > Len(x) \/ n <= 0 THEN 0
    ELSE OnesCount8(x[i] \div (2 ^ (IF n < 8 THEN 8 - n ELSE 0)))
            + PrefixDiffFrom(x, i + 1, n - 8)

\* peer.PrefixDiff: the number of differing bits among the first n bits of
\* a and b; bits past the end of the slices count as equal.
PrefixDiff(a, b, n) == PrefixDiffFrom(Xor(a, b), 1, n)

RECURSIVE BytesLessFrom(_, _, _)
BytesLessFrom(a, b, i) ==
    IF i > Len(a) \/ i > Len(b) THEN Len(a) < Len(b)
    ELSE IF a[i] # b[i] THEN a[i] < b[i]
    ELSE BytesLessFrom(a, b, i + 1)

\* bytes.Compare(a, b) == -1
BytesLess(a, b) == BytesLessFrom(a, b, 1)

----------------------------------------------------------------------------
(* Identities.                                                             *)

SelfPK == "S"
RemotePKs == {"A", "B", "C", "E", "F"}
PublicKeys == {SelfPK} \cup RemotePKs
Addresses == {"a1", "a2"}

\* blake2b.HashBytes on the public keys of the model, injective.  The keys
\* of the routing table's runs have ids of one byte: with self = 40, A, B
\* and C fall in bucket 0, E in bucket 3, F in bucket 7.  The keys of the
\* discovery service's runs have ids of five bytes: against T, X differs
\* in 33 bits (bucket 0), M in 32 bits (bucket 0), N in one bit (bucket 7).
HashBytes(pk) ==
    CASE pk = "T" -> <<40, 0, 0, 0, 0>>
      [] pk = "X" -> <<215, 255, 255, 255, 128>>
      [] pk = "M" -> <<215, 255, 255, 255, 0>>
      [] pk = "N" -> <<41, 0, 0, 0, 0>>
      [] pk = "S" -> <<40>>
      [] pk = "A" -> <<168>>
      [] pk = "B" -> <<169>>
      [] pk = "C" -> <<232>>
      [] pk = "E" -> <<56>>
      [] pk = "F" -> <<41>>

\* peer.CreateID
CreateID(addr, pk) == [Address |-> addr, Id |-> HashBytes(pk), PublicKey |-> pk]

\* A peer.ID whose Id is one byte wider than the table's.
WideID == [Address |-> "a1", Id |-> <<40, 1>>, PublicKey |-> "W"]

\* The peer.IDs handed to the table: every key at its first address, and the
\* keys of MovedPKs at a second address as well.
MovedPKs == {"A"}
PeerIDs == {CreateID("a1", pk) : pk \in PublicKeys}
               \cup {CreateID("a2", pk) : pk \in MovedPKs}
NodeIds == {HashBytes(pk) : pk \in PublicKeys}

----------------------------------------------------------------------------
(* container/list, front at index 1.                                       *)

RemoveAt(l, i) == SubSeq(l, 1, i - 1) \o SubSeq(l, i + 1, Len(l))
PushFront(l, e) == <<e>> \o l
MoveToFront(l, i) == <<l[i]>> \o RemoveAt(l, i)

\* The loop "for e := bucket.Front(); e != nil; e = e.Next()" looking for an
\* id: the index of the first match, 0 when there is none.
FindInBucket(l, id) ==
    IF \E i \in 1..Len(l) : l[i].Id = id
    THEN CHOOSE i \in 1..Len(l) :
             l[i].Id = id /\ \A j \in 1..(i - 1) : l[j].Id # id
    ELSE 0

SeqToSet(l) == {l[i] : i \in 1..Len(l)}
Without(l, id) == SelectSeq(l, LAMBDA e : e # id)
Min(a, b) == IF a < b THEN a ELSE b

----------------------------------------------------------------------------
(* RoutingTable                                                            *)

NoErr == "nil"
ErrBucketFull == "ErrBucketFull"
Panic == "panic"

NumBuckets(me) == Len(me.Id) * 8

\* GetBucketID taking the prefix length of the id itself, not of its
\* distance to self.
GetBucketID_NoXor(me, id) == PrefixLen(id)

\* RoutingTable.GetBucketID
GetBucketID(me, id) == PrefixLen(Xor(id, me.Id))

\* RoutingTable.Bucket: nil for an index outside the table.
HasBucket(bk, b) == b \in DOMAIN bk

\* Update without the capacity test: an absent peer is always pushed.
UpdateBucket_NoCap(l, target, size) ==
    LET i == FindInBucket(l, target.Id) IN
    IF i = 0
    THEN [list |-> PushFront(l, target), err |-> NoErr]
    ELSE [list |-> MoveToFront(l, i), err |-> NoErr]

\* Update that leaves a peer it finds where it is.
UpdateBucket_NoMove(l, target, size) ==
    LET i == FindInBucket(l, target.Id) IN
    IF i = 0
    THEN IF Len(l) < size
         THEN [list |-> PushFront(l, target), err |-> NoErr]
         ELSE [list |-> l, err |-> ErrBucketFull]
    ELSE [list |-> l, err |-> NoErr]

\* Update that makes room in a full bucket by dropping its back entry.
UpdateBucket_DropBack(l, target, size) ==
    LET i == FindInBucket(l, target.Id) IN
    IF i = 0
    THEN IF Len(l) < size
         THEN [list |-> PushFront(l, target), err |-> NoErr]
         ELSE [list |-> PushFront(RemoveAt(l, Len(l)), target), err |-> NoErr]
    ELSE [list |-> MoveToFront(l, i), err |-> NoErr]

\* The body of Update on the target's bucket: the list afterwards and the
\* error returned.
UpdateBucket(l, target, size) ==
    LET i == FindInBucket(l, target.Id) IN
    IF i = 0
    THEN IF Len(l) < size
         THEN [list |-> PushFront(l, target), err |-> NoErr]
         ELSE [list |-> l, err |-> ErrBucketFull]
    ELSE [list |-> MoveToFront(l, i), err |-> NoErr]

\* RoutingTable.Update as a function of the table.
UpdateTable(me, bk, size, target) ==
    IF Len(me.Id) # Len(target.Id)
    THEN [buckets |-> bk, err |-> NoErr, stored |-> FALSE]
    ELSE LET b == GetBucketID(me, target.Id) IN
         IF ~HasBucket(bk, b)
         THEN [buckets |-> bk, err |-> Panic, stored |-> FALSE]
         ELSE LET r == UpdateBucket(bk[b], target, size) IN
              [buckets |-> [bk EXCEPT ![b] = r.list],
               err |-> r.err,
               stored |-> r.err = NoErr]

\* The history of confirmations: for each bucket the ids of the peers that
\* belong to it and are stored, the most recently confirmed first.  It is
\* kept from which peer a call confirmed or dropped, not from list positions.
Confirm(me, rec, id) ==
    LET b == PrefixLen(Xor(id, me.Id)) IN
    [rec EXCEPT ![b] = <<id>> \o Without(rec[b], id)]

Forget(me, rec, id) ==
    LET b == PrefixLen(Xor(id, me.Id)) IN
    [rec EXCEPT ![b] = Without(rec[b], id)]

EmptyBuckets(me) == [b \in 0..(NumBuckets(me) - 1) |-> <<>>]

\* The record of the last call: its operation, argument, error and output,
\* and what the eviction probe of an AddRemoteID came to.
Ret(op, target, n, err, out) ==
    [op |-> op, target |-> target, n |-> n, err |-> err, out |-> out,
     probe |-> "none"]

\* The WithBucketSize values tried.  No bucket of the model can take more
\* than three peers, so the larger sizes behave as the default of 16 does.
BucketSizes == 0..MaxBucketSize

\* NewRoutingTable followed by the options of NewRoutingTableWithOptions:
\* self is stored under the default options, then the options are applied.
NewRoutingTableWithOptions(me, size) ==
    LET r == UpdateTable(me, EmptyBuckets(me), defaultBucketSize, me) IN
    /\ self = me
    /\ opts = [BucketSize |-> size]
    /\ panicked = (r.err = Panic)
    /\ buckets = r.buckets
    /\ recency = IF r.stored THEN Confirm(me, EmptyBuckets(me), me.Id)
                 ELSE EmptyBuckets(me)
    /\ ret = Ret("NewRoutingTable", me, 0, r.err, <<>>)

InitTable ==
    /\ zeroSlack \in {0, 1}
    /\ \E size \in BucketSizes :
           NewRoutingTableWithOptions(CreateID("a1", SelfPK), size)

\* RoutingTable.Update
Update(target) ==
    /\ ~panicked
    /\ LET r == UpdateTable(self, buckets, opts.BucketSize, target) IN
       /\ buckets' = r.buckets
       /\ panicked' = (r.err = Panic)
       /\ recency' = IF r.stored THEN Confirm(self, recency, target.Id)
                     ELSE recency
       /\ ret' = Ret("Update", target, 0, r.err, <<>>)
    /\ UNCHANGED <<self, opts, zeroSlack, nodeVars>>

\* A removal that takes the front entry of the bucket once the id is found.
RemoveTable_Front(me, bk, id) ==
    LET b == GetBucketID(me, id) IN
    IF ~HasBucket(bk, b)
    THEN [buckets |-> bk, found |-> FALSE, err |-> Panic]
    ELSE IF FindInBucket(bk[b], id) = 0
         THEN [buckets |-> bk, found |-> FALSE, err |-> NoErr]
         ELSE [buckets |-> [bk EXCEPT ![b] = RemoveAt(bk[b], 1)],
               found |-> TRUE, err |-> NoErr]

\* RoutingTable.RemovePeer as a function of the table: the first entry with
\* this id leaves its bucket.
RemoveTable(me, bk, id) ==
    LET b == GetBucketID(me, id) IN
    IF ~HasBucket(bk, b)
    THEN [buckets |-> bk, found |-> FALSE, err |-> Panic]
    ELSE LET i == FindInBucket(bk[b], id) IN
         IF i = 0
         THEN [buckets |-> bk, found |-> FALSE, err |-> NoErr]
         ELSE [buckets |-> [bk EXCEPT ![b] = RemoveAt(bk[b], i)],
               found |-> TRUE, err |-> NoErr]

BoolStr(v) == IF v THEN "true" ELSE "false"

\* RoutingTable.RemovePeer
RemovePeer(id) ==
    /\ ~panicked
    /\ LET r == RemoveTable(self, buckets, id) IN
       /\ buckets' = r.buckets
       /\ panicked' = (r.err = Panic)
       /\ recency' = IF r.found THEN Forget(self, recency, id) ELSE recency
       /\ ret' = Ret("RemovePeer", [Address |-> "", Id |-> id, PublicKey |-> ""],
                     0, BoolStr(r.found), <<>>)
    /\ UNCHANGED <<self, opts, zeroSlack, nodeVars>>

\* RoutingTable.GetPeer
GetPeer(me, bk, id) ==
    LET b == GetBucketID(me, id) IN
    IF HasBucket(bk, b) /\ FindInBucket(bk[b], id) # 0
    THEN <<bk[b][FindInBucket(bk[b], id)]>>
    ELSE <<>>

\* Service.PeerDisconnect
PeerDisconnect(pk) ==
    /\ ~panicked
    /\ LET t == CreateID("", pk)
           r == IF GetPeer(self, buckets, t.Id) # <<>>
                THEN RemoveTable(self, buckets, t.Id)
                ELSE [buckets |-> buckets, found |-> FALSE, err |-> NoErr]
       IN
       /\ buckets' = r.buckets
       /\ recency' = IF r.found THEN Forget(self, recency, t.Id) ELSE recency
       /\ ret' = Ret("PeerDisconnect", t, 0, BoolStr(r.found), <<>>)
    /\ UNCHANGED <<self, opts, zeroSlack, panicked, nodeVars>>

----------------------------------------------------------------------------
(* Service.EvictLastSeenPeer                                               *)

\* What the PING request to the bucket's back entry can come to: a PONG,
\* another reply, or an error (timeout, failed send).  Node.Request refuses
\* a recipient equal to the node's own identity.
ProbeOutcomes(me, lastSeen) ==
    IF lastSeen.PublicKey = me.PublicKey
    THEN {"error"}
    ELSE {"pong", "other", "error"}

\* An eviction that drops the back entry whatever the probe came to.
EvictBucket_NoProbe(l, outcome) ==
    [list |-> RemoveAt(l, Len(l)), ok |-> TRUE]

\* The bucket after the probe of its back entry, and the boolean returned.
EvictBucket(l, outcome) ==
    IF outcome = "pong"
    THEN [list |-> MoveToFront(l, Len(l)), ok |-> FALSE]
    ELSE [list |-> RemoveAt(l, Len(l)), ok |-> TRUE]

\* EvictLastSeenPeer as a function of the table.  bucket.Back() of an empty
\* bucket is nil and element.Value panics.
EvictTable(me, bk, rec, id, outcome) ==
    LET b == GetBucketID(me, id) IN
    IF ~HasBucket(bk, b) \/ Len(bk[b]) = 0
    THEN [buckets |-> bk, ok |-> FALSE, err |-> Panic, recency |-> rec]
    ELSE LET lastSeen == bk[b][Len(bk[b])]
             r == EvictBucket(bk[b], outcome)
         IN [buckets |-> [bk EXCEPT ![b] = r.list],
             ok |-> r.ok,
             err |-> NoErr,
             recency |-> IF r.ok THEN Forget(me, rec, lastSeen.Id)
                         ELSE Confirm(me, rec, lastSeen.Id)]

\* The back entry of the bucket an id falls in (the peer that is probed).
LastSeen(me, bk, id) ==
    LET b == GetBucketID(me, id) IN
    IF HasBucket(bk, b) /\ Len(bk[b]) > 0 THEN <<bk[b][Len(bk[b])]>> ELSE <<>>

Outcomes(me, bk, id) ==
    IF LastSeen(me, bk, id) = <<>> THEN {"error"}
    ELSE ProbeOutcomes(me, LastSeen(me, bk, id)[1])

EvictLastSeenPeer(id) ==
    /\ ~panicked
    /\ \E outcome \in Outcomes(self, buckets, id) :
         LET r == EvictTable(self, buckets, recency, id, outcome) IN
         /\ buckets' = r.buckets
         /\ panicked' = (r.err = Panic)
         /\ recency' = r.recency
         /\ ret' = Ret("EvictLastSeenPeer",
                       [Address |-> "", Id |-> id, PublicKey |-> ""],
                       0, IF r.err = Panic THEN Panic ELSE BoolStr(r.ok), <<>>)
    /\ UNCHANGED <<self, opts, zeroSlack, nodeVars>>

\* ConnectionAdapter.AddRemoteID: Update, and on ErrBucketFull the eviction
\* probe followed by a second Update when the back entry was evicted.
AddRemoteID(remote, addr) ==
    /\ ~panicked
    /\ LET id == CreateID(addr, remote)
           r1 == UpdateTable(self, buckets, opts.BucketSize, id)
       IN
       IF r1.err # ErrBucketFull
       THEN /\ buckets' = r1.buckets
            /\ recency' = IF r1.stored THEN Confirm(self, recency, id.Id)
                          ELSE recency
            /\ ret' = Ret("AddRemoteID", id, 0, NoErr, <<>>)
            /\ UNCHANGED panicked
       ELSE \E outcome \in Outcomes(self, buckets, id.Id) :
              LET e == EvictTable(self, buckets, recency, id.Id, outcome)
                  r2 == UpdateTable(self, e.buckets, opts.BucketSize, id)
                  done == [Ret("AddRemoteID", id, 0, NoErr, <<>>)
                              EXCEPT !.probe = outcome]
              IN
              /\ panicked' = (e.err = Panic)
              /\ IF e.err = Panic
                 THEN /\ ret' = [done EXCEPT !.err = Panic, !.probe = "none"]
                      /\ UNCHANGED <<buckets, recency>>
                 ELSE IF e.ok
                 THEN /\ buckets' = r2.buckets
                      /\ recency' = IF r2.stored
                                    THEN Confirm(self, e.recency, id.Id)
                                    ELSE e.recency
                      /\ ret' = [done EXCEPT !.err = r2.err]
                 ELSE /\ buckets' = e.buckets
                      /\ recency' = e.recency
                      /\ ret' = done
    /\ UNCHANGED <<self, opts, zeroSlack, nodeVars>>

----------------------------------------------------------------------------
(* RoutingTable.FindClosestPeers                                           *)

\* The sweep "for i := 1; len(peers) < count && (...); i++" over the buckets
\* on both sides of bucketID.
RECURSIVE Sweep(_, _, _, _, _, _)
Sweep(bk, n, bucketID, count, i, swept) ==
    IF Len(swept) < count /\ (bucketID - i >= 0 \/ bucketID + i < n)
    THEN LET lower == IF bucketID - i >= 0 THEN swept \o bk[bucketID - i]
                      ELSE swept
             both == IF bucketID + i < n THEN lower \o bk[bucketID + i]
                     ELSE lower
         IN Sweep(bk, n, bucketID, count, i + 1, both)
    ELSE swept

\* sort.Slice by bytes.Compare of the distances to the target.
DistLess(a, b, target) == BytesLess(Xor(a.Id, target.Id), Xor(b.Id, target.Id))

RECURSIVE SortByDistance(_, _)
SortByDistance(l, target) ==
    IF Len(l) <= 1 THEN l
    ELSE LET rest == SortByDistance(Tail(l), target)
             before == SelectSeq(rest, LAMBDA e : ~DistLess(Head(l), e, target))
             after == SelectSeq(rest, LAMBDA e : DistLess(Head(l), e, target))
         IN before \o <<Head(l)>> \o after

FindClosestPeersOf(me, bk, target, count) ==
    IF Len(me.Id) # Len(target.Id) THEN <<>>
    ELSE LET bucketID == PrefixLen(Xor(target.Id, me.Id))
             swept == Sweep(bk, NumBuckets(me), bucketID, count, 1, bk[bucketID])
             sorted == SortByDistance(swept, target)
         IN IF Len(sorted) > count THEN SubSeq(sorted, 1, count) ELSE sorted

\* The targets looked up: self, stored peers of buckets 0 and 3, a node id
\* of bucket 1 that no peer has, and an id of another width.
AbsentID == [Address |-> "a1", Id |-> <<104>>, PublicKey |-> "D"]
Targets == {CreateID("a1", pk) : pk \in {"S", "A", "E"}} \cup {AbsentID, WideID}

FindClosestPeers(target, count) ==
    /\ ~panicked
    /\ ret' = Ret("FindClosestPeers", target, count, NoErr,
                  FindClosestPeersOf(self, buckets, target, count))
    /\ UNCHANGED <<self, buckets, opts, zeroSlack, panicked, recency, nodeVars>>

----------------------------------------------------------------------------

NextRoutes ==
    \/ \E target \in PeerIDs \cup {WideID} : Update(target)
    \/ \E id \in NodeIds : RemovePeer(id)
    \/ \E pk \in PublicKeys : PeerDisconnect(pk)
    \/ \E id \in NodeIds : EvictLastSeenPeer(id)
    \/ \E id \in PeerIDs : AddRemoteID(id.PublicKey, id.Address)
    \/ \E target \in Targets, count \in 0..MaxCount : FindClosestPeers(target, count)


----------------------------------------------------------------------------
(* protocol.Node: the peer registry, Send and Request.                     *)

\* The remote public keys that connect to the node, the ones it sends to,
\* and its calling goroutines.
Keys == {"A", "B"}
Recipients == {"A"}
Callers == {"c1", "c2"}

Pending == "pending"
Established == "established"

Slot(key, kind, ref) == [key |-> key, kind |-> kind, ref |-> ref]

\* sync.Map.Load: the slots under a key (none or one).
Load(reg, key) == {e \in reg : e.key = key}

\* Store keeping what the key already maps to.
Store_Insert(reg, key, kind, ref) == reg \cup {Slot(key, kind, ref)}

\* sync.Map.Store, as getPeer and Start use it: the key maps to the new slot
\* and to nothing else.
Store(reg, key, kind, ref) ==
    {e \in reg : e.key # key} \cup {Slot(key, kind, ref)}

\* sync.Map.Delete
Delete(reg, key) == {e \in reg : e.key # key}

\* A session fresh from EstablishPeerWithMessageAdapter: the key exchange is
\* still to be completed by the frames the receiver hands over.
NewSession(key) ==
    [remote |-> key, kxState |-> "InProgress", closed |-> FALSE,
     recv |-> "running"]

Idle ==
    [pc |-> "idle", op |-> "none", rcpt |-> "none", nonce |-> 0, pend |-> 0,
     sess |-> 0, waited |-> 0, slot |-> {}, result |-> "none",
     got |-> <<>>, late |-> FALSE, addr |-> ""]

\* No identity asked for yet.
NoIdentity ==
    [op |-> "none", pk |-> "", nodeID |-> <<>>, nonce |-> <<>>, c1 |-> 0,
     c2 |-> 0, err |-> "nil"]

\* No service registered and no message forwarded.
NoForward ==
    [services |-> <<>>, op |-> "none", nonce |-> 0, matched |-> FALSE,
     returns |-> <<>>, invoked |-> <<>>, sent |-> <<>>, err |-> "nil"]

\* A caller of the table that is not inside a call.
IdleThread == [pc |-> "idle", op |-> "none", target |-> "", element |-> ""]

\* An empty bucket with its mutex free and no caller inside a call.
NoGuarded ==
    [list |-> <<>>, writer |-> "none", readers |-> {},
     thr |-> [t \in {"t1", "t2"} |-> IdleThread],
     mut |-> [by |-> "none", op |-> "none", writer |-> "none",
              readers |-> {}]]

\* No Request has drawn a nonce.
NoneDrawn ==
    [nonces |-> <<>>, by |-> [c \in {"c1", "c2"} |-> 0], refused |-> "none"]

\* PrefixDiff not called.
NoDiff == [a |-> <<>>, b |-> <<>>, n |-> 0, out |-> -1, shorter |-> -1]

\* A registry without slots and no broadcast over it yet.
NoBroadcast ==
    [peers |-> <<>>, op |-> "none", maxPeers |-> 0, peerIDs |-> <<>>,
     sent |-> <<>>, failed |-> {}, err |-> "nil"]

\* No connection made yet: no constructor of a message adapter is running.
NoSetup ==
    [a2p |-> <<>>, p2a |-> <<>>, broken |-> FALSE,
     active |-> [pc |-> "none", local |-> <<>>, remote |-> <<>>,
                 localAddr |-> <<>>, remoteAddr |-> <<>>,
                 recvRemote |-> <<>>, err |-> "nil",
                 metadata |-> [local |-> <<>>, remote |-> <<>>,
                               localAddr |-> <<>>, remoteAddr |-> <<>>]],
     passive |-> [pc |-> "none", local |-> <<>>, configured |-> <<>>,
                  localAddr |-> <<>>, remote |-> <<>>, byteBuf |-> 0,
                  remoteAddr |-> <<>>, err |-> "nil",
                  metadata |-> [local |-> <<>>, remote |-> <<>>,
                                localAddr |-> <<>>, remoteAddr |-> <<>>]]]

\* Accept not called.
NoAccept ==
    [pc |-> "none", localPeer |-> [Address |-> "", Id |-> <<>>,
                                   PublicKey |-> ""],
     sent |-> 0, supplied |-> <<>>, localAddr |-> ""]

\* Request not called: no RequestState, nothing received for it.
NoRequest ==
    [pc |-> "none", registered |-> FALSE, data |-> <<>>, senders |-> {},
     arrived |-> 0, services |-> 0, err |-> "nil", res |-> 0]

\* The components beside the table and the node before they are used.
InitOther ==
    /\ identity = NoIdentity
    /\ setup = NoSetup
    /\ bcast = NoBroadcast
    /\ drawn = NoneDrawn
    /\ guarded = NoGuarded
    /\ forward = NoForward
    /\ accept = NoAccept
    /\ request = NoRequest

\* No message handled by the discovery service yet.
NoMessage ==
    [sender |-> <<>>, opcode |-> "none", wellFormed |-> TRUE,
     reply |-> "none", found |-> <<>>, disabled |-> {}]

\* No callback of a receiver yet.
NoFrame == [sess |-> 0, kind |-> "none", nonce |-> 0, to |-> "none"]

InitNode ==
    /\ peers = {}
    /\ pend = <<>>
    /\ sess = <<>>
    /\ installed = <<>>
    /\ Requests = {}
    /\ RequestNonce = 0
    /\ replies = [n \in {} |-> <<>>]
    /\ cancelled = FALSE
    /\ call = [c \in Callers |-> Idle]
    /\ inbound = NoFrame
    /\ conn = <<>>
    /\ arrived = <<>>
    /\ delivered = <<>>
    /\ worker = "none"
    /\ handled = NoMessage
    /\ InitOther

ReqKey(key, nonce) == [key |-> key, nonce |-> nonce]

\* A MessageBody as the dispatcher sees it: the remote of the session it
\* came over, and its RequestNonce.
Body(from, nonce) == [from |-> from, nonce |-> nonce]

\* Send returns res to its caller.  Request hands an error of Send straight
\* back ("return nil, err") and otherwise goes on to await the reply.
SendReturns(rec, res) ==
    IF rec.op = "Request" /\ res = "ok"
    THEN [Idle EXCEPT !.pc = "awaitReply", !.op = rec.op, !.rcpt = rec.rcpt,
                      !.nonce = rec.nonce, !.late = rec.late]
    ELSE [Idle EXCEPT !.result = res]

NodeUnchanged(others) ==
    UNCHANGED <<routeVars, inbound, recvVars, handled, otherVars, others>>

\* getPeer with a Load and a Store in place of LoadOrStore's loaded flag:
\* a caller that finds a PendingPeer dials as well.
GetPeerLoadOrStore_DialOnPending(c, rec) ==
    LET found == Load(peers, rec.rcpt) IN
    IF found = {}
    THEN /\ Len(pend) < MaxPending
         /\ pend' = Append(pend, [Done |-> FALSE, Established |-> 0,
                               closes |-> 0])
         /\ installed' = Append(installed, 0)
         /\ peers' = peers \cup {Slot(rec.rcpt, Pending, Len(pend) + 1)}
         /\ call' = [call EXCEPT ![c] =
                [rec EXCEPT !.pc = "dial", !.pend = Len(pend) + 1]]
    ELSE /\ \E e \in found :
              call' = [call EXCEPT ![c] =
                  IF e.kind = Pending
                  THEN [rec EXCEPT !.pc = "dial", !.pend = e.ref]
                  ELSE [rec EXCEPT !.pc = "waitKx", !.sess = e.ref]]
         /\ UNCHANGED <<peers, pend, installed>>

\* getPeer: peers.LoadOrStore(remote, &PendingPeer{...}) and the type switch,
\* for the caller whose locals are rec.
GetPeerLoadOrStore(c, rec) ==
    LET found == Load(peers, rec.rcpt) IN
    IF found = {}
    THEN /\ Len(pend) < MaxPending
         /\ pend' = Append(pend, [Done |-> FALSE, Established |-> 0,
                               closes |-> 0])
         /\ installed' = Append(installed, 0)
         /\ peers' = peers \cup {Slot(rec.rcpt, Pending, Len(pend) + 1)}
         /\ call' = [call EXCEPT ![c] =
                [rec EXCEPT !.pc = "dial", !.pend = Len(pend) + 1]]
    ELSE /\ \E e \in found :
              call' = [call EXCEPT ![c] =
                  IF e.kind = Pending
                  THEN [rec EXCEPT !.pc = "waitDone", !.waited = e.ref]
                  ELSE [rec EXCEPT !.pc = "waitKx", !.sess = e.ref]]
         /\ UNCHANGED <<peers, pend, installed>>

\* Node.Send up to the type switch of getPeer.  A nil body, a zero service or
\* the node's own key as recipient are refused at once.
Send(c, key, valid) ==
    /\ call[c].pc = "idle"
    /\ IF valid
       THEN GetPeerLoadOrStore(c, [Idle EXCEPT !.op = "Send", !.rcpt = key])
       ELSE /\ call' = [call EXCEPT ![c] = [Idle EXCEPT !.result = "ErrInvalid"]]
            /\ UNCHANGED <<peers, pend, installed>>
    /\ NodeUnchanged(<<sess, Requests, RequestNonce, replies, cancelled>>)

\* Node.Request up to the type switch of getPeer in its Send: the nonce is
\* drawn and the RequestState registered.
Request(c, key, valid) ==
    /\ call[c].pc = "idle"
    /\ IF valid
       THEN /\ RequestNonce < MaxNonce
            /\ RequestNonce' = RequestNonce + 1
            /\ Requests' = Requests \cup {ReqKey(key, RequestNonce + 1)}
            /\ replies' = [n \in 1..(RequestNonce + 1) |->
                              IF n = RequestNonce + 1 THEN <<>> ELSE replies[n]]
            /\ GetPeerLoadOrStore(c, [Idle EXCEPT !.op = "Request", !.rcpt = key,
                                                  !.nonce = RequestNonce + 1])
       ELSE /\ call' = [call EXCEPT ![c] = [Idle EXCEPT !.result = "ErrInvalid"]]
            /\ UNCHANGED <<peers, pend, installed, Requests, RequestNonce,
                           replies>>
    /\ NodeUnchanged(<<sess, cancelled>>)

\* getPeer, a caller that loaded a PendingPeer: "case <-peer.Done".
GetPeerWaitDone(c) ==
    LET rec == call[c]
        established == pend[rec.waited].Established
    IN
    /\ rec.pc = "waitDone"
    /\ pend[rec.waited].Done
    /\ call' = [call EXCEPT ![c] =
           IF established = 0
           THEN SendReturns(rec, "ErrEstablishedNil")
           ELSE [rec EXCEPT !.pc = "waitKx", !.sess = established]]
    /\ NodeUnchanged(<<peers, pend, sess, installed, Requests, RequestNonce,
                       replies, cancelled>>)

\* getPeer, a caller that loaded a PendingPeer: "case <-Cancellation".
GetPeerCancelled(c) ==
    /\ call[c].pc = "waitDone"
    /\ cancelled
    /\ call' = [call EXCEPT ![c] = SendReturns(call[c], "ErrCancelled")]
    /\ NodeUnchanged(<<peers, pend, sess, installed, Requests, RequestNonce,
                       replies, cancelled>>)

\* A failed dial that returns its error at once, the PendingPeer left in
\* the registry with its Done channel open.
GetPeerDialFails_Return(c) ==
    /\ call[c].pc = "dial"
    /\ call' = [call EXCEPT ![c] = SendReturns(call[c], "ErrDial")]
    /\ NodeUnchanged(<<peers, pend, sess, installed, Requests, RequestNonce,
                       replies, cancelled>>)

\* getPeer, the caller that stored the PendingPeer: Dial or
\* EstablishPeerWithMessageAdapter fails; RemovePeer(remote) comes next.
GetPeerDialFails(c) ==
    /\ call[c].pc = "dial"
    /\ call' = [call EXCEPT ![c] = [call[c] EXCEPT !.pc = "rmLoad"]]
    /\ NodeUnchanged(<<peers, pend, sess, installed, Requests, RequestNonce,
                       replies, cancelled>>)

\* getPeer, the caller that stored the PendingPeer: Dial and
\* EstablishPeerWithMessageAdapter succeed, then
\* n.peers.Store(remote, established), OnRecvMessage and close(peer.Done).
GetPeerDialled(c) ==
    LET rec == call[c]
        sid == Len(sess) + 1
    IN
    /\ rec.pc = "dial"
    /\ Len(sess) < MaxSessions
    /\ sess' = Append(sess, NewSession(rec.rcpt))
    /\ peers' = Store(peers, rec.rcpt, Established, sid)
    /\ installed' = [installed EXCEPT ![rec.pend] = sid]
    /\ pend' = [pend EXCEPT ![rec.pend].Done = TRUE,
                             ![rec.pend].closes = @ + 1]
    /\ call' = [call EXCEPT ![c] =
           [rec EXCEPT !.pc = "waitKx", !.sess = sid, !.pend = 0]]
    /\ NodeUnchanged(<<Requests, RequestNonce, replies, cancelled>>)

\* getPeer: "<-established.kxDone" with the key exchange failed.
GetPeerKxFailed(c) ==
    LET rec == call[c] IN
    /\ rec.pc = "waitKx"
    /\ sess[rec.sess].kxState = "Failed"
    /\ call' = [call EXCEPT ![c] = SendReturns(rec, "ErrKeyExchange")]
    /\ NodeUnchanged(<<peers, pend, sess, installed, Requests, RequestNonce,
                       replies, cancelled>>)

\* getPeer returns the session and Send calls peer.SendMessage.  A write on
\* a closed stream fails; any write may.  RemovePeer follows a failure.
SendMessage(c, ok) ==
    LET rec == call[c] IN
    /\ rec.pc = "waitKx"
    /\ sess[rec.sess].kxState = "Done"
    /\ ok => ~sess[rec.sess].closed
    /\ call' = [call EXCEPT ![c] =
           IF ok THEN SendReturns(rec, "ok")
           ELSE [rec EXCEPT !.pc = "rmLoad", !.sess = 0]]
    /\ NodeUnchanged(<<peers, pend, sess, installed, Requests, RequestNonce,
                       replies, cancelled>>)

\* The caller's RemovePeer is over.  In getPeer close(peer.Done) and the
\* error return follow it, in Send the error return.
AfterRemove(c) ==
    LET rec == call[c] IN
    IF rec.pend # 0
    THEN /\ pend' = [pend EXCEPT ![rec.pend].Done = TRUE,
                                  ![rec.pend].closes = @ + 1]
         /\ call' = [call EXCEPT ![c] = SendReturns(rec, "ErrDial")]
    ELSE /\ call' = [call EXCEPT ![c] = SendReturns(rec, "ErrSend")]
         /\ UNCHANGED pend

\* RemovePeer: n.peers.Load(id).
RemovePeerLoad(c) ==
    LET rec == call[c]
        found == Load(peers, rec.rcpt)
    IN
    /\ rec.pc = "rmLoad"
    /\ IF found = {}
       THEN AfterRemove(c)
       ELSE /\ call' = [call EXCEPT ![c] =
                   [rec EXCEPT !.pc = "rmDelete", !.slot = found]]
            /\ UNCHANGED pend
    /\ NodeUnchanged(<<peers, sess, installed, Requests, RequestNonce,
                       replies, cancelled>>)

\* The sessions after RemovePeer's "if peer is *EstablishedPeer: Close()".
CloseLoaded(ss, slot) ==
    [i \in 1..Len(ss) |->
        IF \E e \in slot : e.kind = Established /\ e.ref = i
        THEN [ss[i] EXCEPT !.closed = TRUE] ELSE ss[i]]

\* RemovePeer: Close of the slot loaded, peers.Delete(id), PeerDisconnect.
RemovePeerDelete(c) ==
    LET rec == call[c] IN
    /\ rec.pc = "rmDelete"
    /\ sess' = CloseLoaded(sess, rec.slot)
    /\ peers' = Delete(peers, rec.rcpt)
    /\ AfterRemove(c)
    /\ NodeUnchanged(<<installed, Requests, RequestNonce, replies, cancelled>>)

\* Request: "case res := <-channel" with the deferred Requests.Delete.
RequestReply(c) ==
    LET rec == call[c] IN
    /\ rec.pc = "awaitReply"
    /\ replies[rec.nonce] # <<>>
    /\ replies' = [replies EXCEPT ![rec.nonce] = Tail(replies[rec.nonce])]
    /\ Requests' = Requests \ {ReqKey(rec.rcpt, rec.nonce)}
    /\ call' = [call EXCEPT ![c] =
           [Idle EXCEPT !.result = "reply", !.got = <<Head(replies[rec.nonce])>>]]
    /\ NodeUnchanged(<<peers, pend, sess, installed, RequestNonce, cancelled>>)

\* Request: "case <-ctx.Done()" with the deferred Requests.Delete.
RequestTimeout(c) ==
    LET rec == call[c] IN
    /\ rec.pc = "awaitReply"
    /\ Requests' = Requests \ {ReqKey(rec.rcpt, rec.nonce)}
    /\ call' = [call EXCEPT ![c] = [Idle EXCEPT !.result = "ErrTimeout"]]
    /\ NodeUnchanged(<<peers, pend, sess, installed, RequestNonce, replies,
                       cancelled>>)

\* Node.Start, one turn of the accept loop: the session of an inbound
\* connection is stored under the remote's key and its receiver started.
Accept(key) ==
    /\ Len(sess) < MaxSessions
    /\ sess' = Append(sess, NewSession(key))
    /\ peers' = Store(peers, key, Established, Len(sess) + 1)
    /\ NodeUnchanged(<<pend, installed, Requests, RequestNonce, replies,
                       cancelled, call>>)

\* RemovePeer run within one callback of a receiver: the slot under the key
\* is closed if established, and deleted.
RemoveNow(reg, ss, key) ==
    [peers |-> Delete(reg, key), sess |-> CloseLoaded(ss, Load(reg, key))]

\* dispatchIncomingMessage before the key exchange is done:
\* continueKeyExchange completes it, or fails and the peer is removed.
ContinueKeyExchange(s, ok) ==
    /\ sess[s].recv = "running"
    /\ ~sess[s].closed
    /\ sess[s].kxState = "InProgress"
    /\ IF ok
       THEN /\ sess' = [sess EXCEPT ![s].kxState = "Done"]
            /\ UNCHANGED peers
       ELSE LET after == RemoveNow(peers, sess, sess[s].remote) IN
            /\ sess' = [after.sess EXCEPT ![s].kxState = "Failed"]
            /\ peers' = after.peers
    /\ NodeUnchanged(<<pend, installed, Requests, RequestNonce, replies,
                       cancelled, call>>)

\* runRecvWorker leaves its loop (end of stream, framing error, closed
\* stream) and calls back with nil: dispatchIncomingMessage removes the peer.
RecvNil(s) ==
    LET after == RemoveNow(peers, sess, sess[s].remote) IN
    /\ sess[s].recv = "running"
    /\ sess' = [after.sess EXCEPT ![s].recv = "ended"]
    /\ peers' = after.peers
    /\ NodeUnchanged(<<pend, installed, Requests, RequestNonce, replies,
                       cancelled, call>>)

\* processMessageBody for a body whose (sender, nonce) is registered:
\* "rq.data <- body" into the buffer of one.
ProcessReply(s, n) ==
    /\ sess[s].recv = "running"
    /\ ~sess[s].closed
    /\ sess[s].kxState = "Done"
    /\ ReqKey(sess[s].remote, n) \in Requests
    /\ replies[n] = <<>>
    /\ replies' = [replies EXCEPT ![n] = <<Body(sess[s].remote, n)>>]
    /\ NodeUnchanged(<<peers, pend, sess, installed, Requests, RequestNonce,
                       cancelled, call>>)

\* Node.Stop: every slot is closed if established, and deleted.
Stop ==
    /\ peers # {}
    /\ sess' = CloseLoaded(sess, peers)
    /\ peers' = {}
    /\ NodeUnchanged(<<pend, installed, Requests, RequestNonce, replies,
                       cancelled, call>>)

\* The controller's Cancellation channel is closed.  Its one reader is the
\* select of getPeer, so the close is taken once a caller stands there.
Cancel ==
    /\ ~cancelled
    /\ \E c \in Callers : call[c].pc = "waitDone"
    /\ cancelled' = TRUE
    /\ NodeUnchanged(<<peers, pend, sess, installed, Requests, RequestNonce,
                       replies, call>>)

Sessions == 1..Len(sess)

Next ==
    \/ \E c \in Callers, key \in Recipients, valid \in BOOLEAN :
          Send(c, key, valid)
    \/ \E c \in Callers, key \in Recipients, valid \in BOOLEAN :
          Request(c, key, valid)
    \/ \E c \in Callers : GetPeerWaitDone(c)
    \/ \E c \in Callers : GetPeerCancelled(c)
    \/ \E c \in Callers : GetPeerDialFails(c)
    \/ \E c \in Callers : GetPeerDialled(c)
    \/ \E c \in Callers : GetPeerKxFailed(c)
    \/ \E c \in Callers, ok \in BOOLEAN : SendMessage(c, ok)
    \/ \E c \in Callers : RemovePeerLoad(c)
    \/ \E c \in Callers : RemovePeerDelete(c)
    \/ \E c \in Callers : RequestReply(c)
    \/ \E c \in Callers : RequestTimeout(c)
    \/ \E key \in Keys : Accept(key)
    \/ \E s \in Sessions, ok \in BOOLEAN : ContinueKeyExchange(s, ok)
    \/ \E s \in Sessions : RecvNil(s)
    \/ \E s \in Sessions, n \in 1..RequestNonce : ProcessReply(s, n)
    \/ Stop
    \/ Cancel

\* The table the node of Spec runs on: built with the default options.
Init ==
    /\ InitNode
    /\ diff = NoDiff
    /\ zeroSlack = 1
    /\ NewRoutingTableWithOptions(CreateID("a1", SelfPK), defaultBucketSize)

Spec == Init /\ [][Next]_vars

----------------------------------------------------------------------------
(* protocol.Node fed with inbound frames: runRecvWorker's callbacks,       *)
(* dispatchIncomingMessage and processMessageBody.                         *)

\* The RequestNonce values inbound bodies carry; 0 marks no request.
BodyNonces == 0..MaxNonce

\* What one turn of runRecvWorker's loop reads: a frame holding a body, a
\* frame that fails UnwrapMessage or DeserializeMessageBody, a frame whose
\* declared length exceeds MaxPayloadLen, or the end of the stream.
Frames ==
    [kind : {"body", "garbled"}, nonce : BodyNonces]
        \cup [kind : {"long", "eof"}, nonce : {0}]

\* The lookup of processMessageBody with the sender left out of the key.
LookupRequest_AnySender(reqs, from, nonce) ==
    \E q \in reqs : q.nonce = nonce

\* processMessageBody: n.Requests.Load(makeRequestReplyKey(RemoteID, nonce)).
LookupRequest(reqs, from, nonce) == ReqKey(from, nonce) \in reqs

\* processMessageBody going on to the services after "rq.data <- body".
ProcessMessageBody_FallThrough(reqs, rep, body) ==
    IF ReqKey(body.from, body.nonce) \in reqs /\ Len(rep[body.nonce]) < 1
    THEN [replies |-> [rep EXCEPT ![body.nonce] = Append(@, body)],
          to |-> "services"]
    ELSE [replies |-> rep, to |-> "services"]

\* processMessageBody on a body: "rq.data <- body" when the lookup finds a
\* RequestState (the send waits while the buffer of one is taken), the
\* services' Receive otherwise.
ProcessMessageBody(reqs, rep, body) ==
    IF LookupRequest(reqs, body.from, body.nonce)
    THEN IF Len(rep[body.nonce]) < 1
         THEN [replies |-> [rep EXCEPT ![body.nonce] = Append(@, body)],
               to |-> "request"]
         ELSE [replies |-> rep, to |-> "blocked"]
    ELSE [replies |-> rep, to |-> "services"]

\* What dispatchIncomingMessage hands to processMessageBody after a failed
\* UnwrapMessage or DeserializeMessageBody, both of which it only logs: a
\* nil body (-1) or a body holding any nonce.
GarbledBodies == {-1} \cup BodyNonces

\* One turn of runRecvWorker's loop on a session and the callback it makes:
\* the nil callback, which removes the peer, on a read error or an oversized
\* frame; dispatchIncomingMessage and processMessageBody on a frame read
\* once the key exchange is done.
Receive(s, frame) ==
    LET remote == sess[s].remote IN
    /\ sess[s].recv = "running"
    /\ inbound.to # "panic"
    /\ IF frame.kind \in {"long", "eof"}
       THEN LET after == RemoveNow(peers, sess, remote) IN
            /\ frame.kind = "long" => ~sess[s].closed
            /\ sess' = [after.sess EXCEPT ![s].recv = "ended"]
            /\ peers' = after.peers
            /\ inbound' = [sess |-> s, kind |-> frame.kind, nonce |-> 0,
                           to |-> "nil"]
            /\ UNCHANGED replies
       ELSE /\ ~sess[s].closed
            /\ sess[s].kxState = "Done"
            /\ \E n \in IF frame.kind = "body" THEN {frame.nonce}
                                              ELSE GarbledBodies :
                 LET d == IF n = -1 THEN [replies |-> replies, to |-> "panic"]
                          ELSE ProcessMessageBody(Requests, replies,
                                                  Body(remote, n))
                 IN /\ replies' = d.replies
                    /\ inbound' = [sess |-> s, kind |-> frame.kind,
                                   nonce |-> frame.nonce, to |-> d.to]
            /\ UNCHANGED <<peers, sess>>
    /\ UNCHANGED <<routeVars, pend, installed, Requests, RequestNonce,
                   cancelled, call, recvVars, handled, otherVars>>

\* The deadline of a Request's context elapses while the call is under way.
DeadlineElapses(c) ==
    /\ call[c].op = "Request"
    /\ call[c].pc # "idle"
    /\ ~call[c].late
    /\ call' = [call EXCEPT ![c].late = TRUE]
    /\ NodeUnchanged(<<peers, pend, sess, installed, Requests, RequestNonce,
                       replies, cancelled>>)

NextInbound ==
    \/ \E c \in Callers, key \in Recipients : Request(c, key, TRUE)
    \/ \E c \in Callers : GetPeerDialled(c)
    \/ \E c \in Callers : GetPeerKxFailed(c)
    \/ \E c \in Callers : SendMessage(c, TRUE)
    \/ \E c \in Callers : RequestReply(c)
    \/ \E c \in Callers : RequestTimeout(c)
    \/ \E c \in Callers : DeadlineElapses(c)
    \/ \E key \in Keys : Accept(key)
    \/ \E s \in Sessions, ok \in BOOLEAN : ContinueKeyExchange(s, ok)
    \/ \E s \in Sessions, frame \in Frames : Receive(s, frame)

SpecInbound == Init /\ [][NextInbound]_vars

InitRoutes == InitTable /\ InitNode /\ diff = NoDiff

SpecRoutes == InitRoutes /\ [][NextRoutes]_vars

----------------------------------------------------------------------------
(* base.MessageAdapter: one connection and the goroutine of runRecvWorker. *)

\* The payloads frames carry.
Payloads == {1, 2}

\* What arrives on the connection: a frame with its payload, a length
\* prefix above MaxPayloadLen, a stream that ends inside a frame, or the
\* end of the stream.
Arrivals ==
    [kind : {"frame"}, buf : Payloads]
        \cup [kind : {"long", "cut", "eof"}, buf : {0}]

\* MessageAdapter.Close as the reader meets it: a read error.
Closed == [kind |-> "closed", buf |-> 0]

\* Nothing arrives after the stream ended or the connection was closed.
ConnOpen ==
    \A i \in 1..Len(arrived) : arrived[i].kind \in {"frame", "long"}

\* The arguments of the callback: a buffer read, or nil.
Message(buf) == [nil |-> FALSE, buf |-> buf]
NilMessage == [nil |-> TRUE, buf |-> 0]

\* One turn of the loop that skips an oversized frame and reads on.
RunRecvWorkerTurn_SkipLong(c) ==
    IF Head(c).kind = "frame"
    THEN [conn |-> Tail(c), calls |-> <<Message(Head(c).buf)>>,
          worker |-> "loop"]
    ELSE [conn |-> Tail(c), calls |-> <<>>,
          worker |-> IF Head(c).kind = "long" THEN "loop" ELSE "exit"]

\* One turn of runRecvWorker's loop on the unread stream c: a frame read
\* goes to the callback; a read error or an oversized length breaks out.
RunRecvWorkerTurn(c) ==
    IF Head(c).kind = "frame"
    THEN [conn |-> Tail(c), calls |-> <<Message(Head(c).buf)>>,
          worker |-> "loop"]
    ELSE [conn |-> Tail(c), calls |-> <<>>, worker |-> "exit"]

RecvUnchanged ==
    UNCHANGED <<routeVars, peers, pend, sess, installed, Requests,
                RequestNonce, replies, cancelled, call, inbound, handled,
                otherVars>>

\* The remote end writes, or ends the stream.
Arrive(f) ==
    /\ Len(arrived) < MaxFrames
    /\ ConnOpen
    /\ conn' = Append(conn, f)
    /\ arrived' = Append(arrived, f)
    /\ UNCHANGED <<delivered, worker>>
    /\ RecvUnchanged

\* MessageAdapter.Close: conn.Close().  What the bufio.Reader holds can
\* still be read, what it does not hold is lost, then reads fail.
Close(k) ==
    /\ ConnOpen
    /\ Len(arrived) < MaxFrames
    /\ k \in 0..Len(conn)
    /\ conn' = Append(SubSeq(conn, 1, k), Closed)
    /\ arrived' = Append(arrived, Closed)
    /\ UNCHANGED <<delivered, worker>>
    /\ RecvUnchanged

\* MessageAdapter.OnRecvMessage: "go runRecvWorker(...)".
OnRecvMessage ==
    /\ worker = "none"
    /\ worker' = "loop"
    /\ UNCHANGED <<conn, arrived, delivered>>
    /\ RecvUnchanged

\* runRecvWorker: one turn of its loop, once there is something to read.
ReadFrame ==
    /\ worker = "loop"
    /\ conn # <<>>
    /\ LET t == RunRecvWorkerTurn(conn) IN
       /\ conn' = t.conn
       /\ delivered' = delivered \o t.calls
       /\ worker' = t.worker
    /\ UNCHANGED arrived
    /\ RecvUnchanged

\* runRecvWorker after its loop: "callback(context.Background(), nil)".
CallbackNil ==
    /\ worker = "exit"
    /\ delivered' = Append(delivered, NilMessage)
    /\ worker' = "done"
    /\ UNCHANGED <<conn, arrived>>
    /\ RecvUnchanged

NextRecv ==
    \/ \E f \in Arrivals : Arrive(f)
    \/ \E k \in 0..MaxFrames : Close(k)
    \/ OnRecvMessage
    \/ ReadFrame
    \/ CallbackNil

\* The goroutine of runRecvWorker is scheduled as long as it can run.
SpecRecv ==
    /\ Init
    /\ [][NextRecv]_vars
    /\ WF_vars(ReadFrame)
    /\ WF_vars(CallbackNil)

----------------------------------------------------------------------------
(* discovery.Service: Receive and processMsg on the service's table.       *)

DiscoverySelfPK == "T"
DiscoveryPKs == {"X", "M", "N"}
DiscoveryIDs == {CreateID("a1", pk) : pk \in DiscoveryPKs}

Opcodes == {"PING", "PONG", "LOOKUP_REQUEST", "OTHER"}

\* The handlers switched off: DisablePing, DisablePong, DisableLookup.
Switches == {"ping", "pong", "lookup"}

\* What FindNode can return: up to MaxFound peers, no peer twice.
RECURSIVE FoundLists(_)
FoundLists(n) ==
    IF n = 0 THEN {<<>>}
    ELSE FoundLists(n - 1) \cup
         {Append(l, id) : l \in {m \in FoundLists(n - 1) : Len(m) = n - 1},
                          id \in DiscoveryIDs}

\* The results of FindNode tried.
Found == FoundLists(MaxFound)

\* A gate that lets a peer through from prefixDiffMin differing bits on.
PassesGate_AtLeast(id, me) ==
    PrefixDiff(id.Id, me.Id, prefixDiffLength) >= prefixDiffMin

\* The anti-flooding test of processMsg.
PassesGate(id, me) ==
    PrefixDiff(id.Id, me.Id, prefixDiffLength) > prefixDiffMin

\* "err := s.Routes.Update(id); if err == dht.ErrBucketFull { if ok, _ :=
\* s.EvictLastSeenPeer(id.Id); ok { s.Routes.Update(id) } }" on the table t,
\* the probe of the back entry coming to outcome where it can.
UpdateOrEvict(me, t, size, id, outcome) ==
    LET r1 == UpdateTable(me, t.buckets, size, id) IN
    IF r1.err # ErrBucketFull
    THEN [buckets |-> r1.buckets,
          recency |-> IF r1.stored THEN Confirm(me, t.recency, id.Id)
                      ELSE t.recency,
          panicked |-> t.panicked \/ r1.err = Panic]
    ELSE LET o == IF outcome \in Outcomes(me, t.buckets, id.Id)
                  THEN outcome ELSE "error"
             e == EvictTable(me, t.buckets, t.recency, id.Id, o)
             r2 == UpdateTable(me, e.buckets, size, id)
         IN IF e.err = Panic
            THEN [t EXCEPT !.panicked = TRUE]
            ELSE IF e.ok
            THEN [buckets |-> r2.buckets,
                  recency |-> IF r2.stored
                              THEN Confirm(me, e.recency, id.Id)
                              ELSE e.recency,
                  panicked |-> t.panicked]
            ELSE [buckets |-> e.buckets, recency |-> e.recency,
                  panicked |-> t.panicked]

\* The loop of the PONG branch over the peers FindNode returned: each is
\* handed to Update when the sender passes the gate.
RECURSIVE MergeFound(_, _, _, _, _, _, _)
MergeFound(me, t, size, sender, found, outcome, i) ==
    IF i > Len(found) \/ t.panicked THEN t
    ELSE LET next == CHOOSE v \in
                        {IF PassesGate(sender, me)
                         THEN UpdateOrEvict(me, t, size, found[i], outcome)
                         ELSE t} : TRUE
         IN MergeFound(me, next, size, sender, found, outcome, i + 1)

\* The reply processMsg returns for an opcode.
Reply(opcode, disabled, wellFormed) ==
    CASE opcode = "PING" /\ "ping" \notin disabled -> "PONG"
      [] opcode = "LOOKUP_REQUEST" /\ "lookup" \notin disabled ->
            IF wellFormed THEN "LOOKUP_RESPONSE" ELSE "error"
      [] OTHER -> "none"

\* Service.Receive of a message of the discovery service from sender:
\* processMsg.  found is what FindNode returns in the PONG branch, outcome
\* what the eviction probes come to, wellFormed whether the lookup request
\* unmarshals.
ProcessMsg(sender, opcode, found, outcome, wellFormed) ==
    /\ ~panicked
    /\ opcode # "PONG" => found = <<>>
    /\ opcode # "LOOKUP_REQUEST" => wellFormed
    /\ \E t1 \in {IF PassesGate(sender, self)
                   THEN UpdateOrEvict(self,
                            [buckets |-> buckets, recency |-> recency,
                             panicked |-> FALSE],
                            opts.BucketSize, sender, outcome)
                   ELSE [buckets |-> buckets, recency |-> recency,
                         panicked |-> FALSE]} :
       \E t2 \in {IF opcode = "PONG" /\ "pong" \notin handled.disabled
                   THEN MergeFound(self, t1, opts.BucketSize, sender, found,
                                   outcome, 1)
                   ELSE t1} :
          /\ buckets' = t2.buckets
          /\ recency' = t2.recency
          /\ panicked' = t2.panicked
    /\ handled' = [sender |-> <<sender>>, opcode |-> opcode,
                   wellFormed |-> wellFormed,
                   reply |-> Reply(opcode, handled.disabled, wellFormed),
                   found |-> found, disabled |-> handled.disabled]
    /\ UNCHANGED <<self, opts, zeroSlack, ret, peers, pend, sess, installed,
                   Requests, RequestNonce, replies, cancelled, call, inbound,
                   recvVars, otherVars>>

NextDiscovery ==
    \E sender \in DiscoveryIDs, opcode \in Opcodes,
       found \in Found,
       outcome \in {"pong", "error"}, wellFormed \in BOOLEAN :
         ProcessMsg(sender, opcode, found, outcome, wellFormed)

\* NewService: the table of the service, here also with a bucket of one;
\* the switches are set before the service starts.
InitDiscovery ==
    /\ zeroSlack = 1
    /\ \E size \in {1, defaultBucketSize} :
          NewRoutingTableWithOptions(CreateID("a1", DiscoverySelfPK), size)
    /\ peers = {}
    /\ pend = <<>>
    /\ sess = <<>>
    /\ installed = <<>>
    /\ Requests = {}
    /\ RequestNonce = 0
    /\ replies = [n \in {} |-> <<>>]
    /\ cancelled = FALSE
    /\ call = [c \in Callers |-> Idle]
    /\ inbound = NoFrame
    /\ conn = <<>>
    /\ arrived = <<>>
    /\ delivered = <<>>
    /\ worker = "none"
    /\ \E d \in SUBSET Switches : handled = [NoMessage EXCEPT !.disabled = d]
    /\ InitOther
    /\ diff = NoDiff

SpecDiscovery == InitDiscovery /\ [][NextDiscovery]_vars

----------------------------------------------------------------------------
(* Properties of the routing table, checked under SpecRoutes.              *)

BucketIds == DOMAIN buckets
Stored == UNION {SeqToSet(buckets[b]) : b \in BucketIds}
IdsOf(l) == [i \in 1..Len(l) |-> l[i].Id]
Distance(p, target) == Xor(p.Id, target.Id)

\* C5: FindClosestPeers(target, count) returns exactly the
\* min(count, stored) stored peers nearest to the target by xor distance:
\* no stored peer left out is strictly nearer than a returned one.
ClosestK ==
    (ret.op = "FindClosestPeers" /\ Len(ret.target.Id) = Len(self.Id)) =>
        /\ Len(ret.out) = Min(ret.n, Cardinality(Stored))
        /\ SeqToSet(ret.out) \subseteq Stored
        /\ Cardinality(SeqToSet(ret.out)) = Len(ret.out)
        /\ \A p \in Stored \ SeqToSet(ret.out) : \A q \in SeqToSet(ret.out) :
               ~BytesLess(Distance(p, ret.target), Distance(q, ret.target))

\* C6: every stored peer sits in the bucket whose index is the prefix
\* length of its distance to self, and is stored exactly once.
RoutingBijection ==
    \A b \in BucketIds : \A i \in 1..Len(buckets[b]) :
        /\ PrefixLen(Xor(buckets[b][i].Id, self.Id)) = b
        /\ \A c \in BucketIds : \A j \in 1..Len(buckets[c]) :
               buckets[c][j].Id = buckets[b][i].Id => (c = b /\ j = i)

\* Buckets 0 and 7 hold two peers each and bucket 3 one, after an
\* AddRemoteID that went through the eviction of a back entry.
RoutingBijectionWitness ==
    /\ ~panicked
    /\ ret.op = "AddRemoteID"
    /\ opts.BucketSize = 2
    /\ Len(buckets[0]) = 2 /\ Len(buckets[3]) = 1 /\ Len(buckets[7]) = 2
    /\ buckets[0][1] = ret.target
    /\ IdsOf(buckets[0]) = <<HashBytes("C"), HashBytes("B")>>

\* C7: a step of Update(target) has one of three outcomes on the target's
\* bucket (found: moved to the front, same members; room: pushed at the
\* front; full: ErrBucketFull and no change), changes no other bucket, and
\* stores nothing for a target of another width.
UpdateOutcomes ==
    [][ret'.op = "Update" =>
        LET target == ret'.target IN
        IF Len(target.Id) # Len(self.Id)
        THEN buckets' = buckets /\ ret'.err = NoErr
        ELSE LET b == PrefixLen(Xor(target.Id, self.Id))
                 old == buckets[b]
                 new == buckets'[b]
             IN /\ \A c \in BucketIds \ {b} : buckets'[c] = buckets[c]
                /\ IF \E i \in 1..Len(old) : old[i].Id = target.Id
                   THEN /\ ret'.err = NoErr
                        /\ new[1].Id = target.Id
                        /\ Tail(new) = SelectSeq(old, LAMBDA e : e.Id # target.Id)
                        /\ SeqToSet(new) = SeqToSet(old)
                   ELSE IF Len(old) < opts.BucketSize
                   THEN ret'.err = NoErr /\ new = <<target>> \o old
                   ELSE ret'.err = ErrBucketFull /\ new = old
    ]_vars

\* Update has just refused a peer of bucket 0, which is full with two others.
UpdateOutcomesWitness ==
    /\ ret.op = "Update" /\ ret.err = ErrBucketFull
    /\ opts.BucketSize = 2
    /\ Len(buckets[0]) = 2
    /\ PrefixLen(Xor(ret.target.Id, self.Id)) = 0
    /\ \A i \in 1..2 : buckets[0][i].Id # ret.target.Id

\* C8 as stated: every bucket holds at most BucketSize entries, whatever the
\* bucket size the table was built with.
BucketCapacity ==
    \A b \in BucketIds : Len(buckets[b]) <= opts.BucketSize

\* C8 amended: with a bucket size of at least one, every bucket holds at
\* most BucketSize entries.
BucketCapacityFromOne ==
    opts.BucketSize >= 1 => \A b \in BucketIds : Len(buckets[b]) <= opts.BucketSize

\* A full bucket 0 into which AddRemoteID has just put a new peer in place
\* of the evicted back entry.
BucketCapacityWitness ==
    /\ ret.op = "AddRemoteID" /\ ret.err = NoErr
    /\ opts.BucketSize = 2
    /\ Len(buckets[0]) = opts.BucketSize
    /\ IdsOf(buckets[0]) = <<HashBytes("C"), HashBytes("A")>>
    /\ ret.target.PublicKey = "C"

\* C9: each bucket lists its peers by their last confirmation (a successful
\* Update or an answered eviction probe), the most recent at the front.
LRUOrdering ==
    \A b \in BucketIds : IdsOf(buckets[b]) = recency[b]

\* The eviction probe has just been answered by the back entry of a bucket
\* of two, which is now at its front.
LRUOrderingWitness ==
    /\ ret.op = "EvictLastSeenPeer" /\ ret.err = "false"
    /\ IdsOf(buckets[0]) = <<HashBytes("A"), HashBytes("B")>>
    /\ recency[0] = <<HashBytes("A"), HashBytes("B")>>

\* C10: self is in its own bucket in every state of a constructed table.
SelfPresent ==
    ~panicked => \E b \in BucketIds : FindInBucket(buckets[b], self.Id) # 0

\* C16 for every bucket size: an AddRemoteID whose Update returns
\* ErrBucketFull probes the bucket's back entry; on a PONG the entry moves
\* to the front and the new peer stays out, otherwise the entry is dropped
\* and the new peer put at the front.
EvictionByLiveness ==
    [][LET id == ret'.target
            b == GetBucketID(self, id.Id)
            old == buckets[b]
            rest == RemoveAt(old, Len(old))
        IN
        (/\ ret'.op = "AddRemoteID"
         /\ UpdateTable(self, buckets, opts.BucketSize, id).err = ErrBucketFull)
        => /\ ret'.probe # "none"
           /\ buckets' = [buckets EXCEPT ![b] =
                  IF ret'.probe = "pong" THEN <<old[Len(old)]>> \o rest
                                         ELSE <<id>> \o rest]]_vars

\* C16: in a table of bucket size at least one, an AddRemoteID whose Update
\* returns ErrBucketFull probes the bucket's back entry; the entry is
\* evicted and the new peer inserted at the front exactly when no PONG
\* comes back, and on a PONG the entry moves to the front, the new peer is
\* left out and the bucket keeps its size.
EvictionByLivenessFromOne ==
    [][LET id == ret'.target
            b == GetBucketID(self, id.Id)
            old == buckets[b]
            rest == RemoveAt(old, Len(old))
        IN
        (/\ ret'.op = "AddRemoteID"
         /\ UpdateTable(self, buckets, opts.BucketSize, id).err = ErrBucketFull
         /\ opts.BucketSize >= 1)
        => /\ ret'.probe # "none"
           /\ buckets' = [buckets EXCEPT ![b] =
                  IF ret'.probe = "pong" THEN <<old[Len(old)]>> \o rest
                                         ELSE <<id>> \o rest]]_vars

\* A full bucket of two whose back entry answered the probe: it now leads
\* the bucket and the new peer is not in it.
EvictionByLivenessWitness ==
    /\ ret.op = "AddRemoteID"
    /\ ret.probe = "pong"
    /\ LET l == buckets[GetBucketID(self, ret.target.Id)] IN
       /\ Len(l) = 2
       /\ opts.BucketSize = 2
       /\ FindInBucket(l, ret.target.Id) = 0
       /\ recency[GetBucketID(self, ret.target.Id)][1] = l[1].Id

\* C21: after Service.PeerDisconnect(pk) no bucket holds an entry with the
\* id of pk, and every other entry of every bucket is where it was.
DisconnectRemoves ==
    [][ret'.op = "PeerDisconnect" =>
          buckets' = [b \in DOMAIN buckets |->
                         SelectSeq(buckets[b],
                                   LAMBDA e : e.Id # ret'.target.Id)]]_vars

\* A disconnected peer left a bucket in which another peer stays.
DisconnectRemovesWitness ==
    /\ ret.op = "PeerDisconnect"
    /\ ret.err = "true"
    /\ LET l == buckets[GetBucketID(self, ret.target.Id)] IN
       /\ Len(l) = 1
       /\ l[1].Id # ret.target.Id
       /\ l[1].Id # self.Id

----------------------------------------------------------------------------
(* Properties of the peer registry and of Request, checked under Spec.     *)

NoStaleRequest ==
    \A q \in Requests :
        \E c \in Callers :
            /\ call[c].op = "Request"
            /\ call[c].rcpt = q.key
            /\ call[c].nonce = q.nonce

\* C3: a caller that waited on a pending slot whose creator dialled, stored
\* a session and saw its key exchange succeed leaves the wait holding that
\* very session (unless the node is cancelled); it gets an error only if
\* the creator failed.
LosersShareSession ==
    [][\A c \in Callers :
          (/\ call[c].pc = "waitDone"
           /\ call'[c].pc # "waitDone"
           /\ installed[call[c].waited] # 0
           /\ sess[installed[call[c].waited]].kxState = "Done"
           /\ call'[c].result # "ErrCancelled")
          => (/\ call'[c].pc = "waitKx"
              /\ call'[c].sess = installed[call[c].waited])]_vars

\* C4: of the sessions of one remote at most one is open with its receiver
\* running: the session that loses the registry slot is closed.
OneOpenSessionPerRemote ==
    \A key \in Keys :
        Cardinality({s \in Sessions : /\ sess[s].remote = key
                                      /\ ~sess[s].closed
                                      /\ sess[s].recv = "running"}) <= 1

\* C13: a RemovePeer that goes on to Close, Delete and PeerDisconnect takes
\* a slot out of the registry and closes a session nobody closed before, so
\* that PeerDisconnect runs once per removed slot and Close at most once
\* per session, whatever other removals run at the same time.
DisconnectOncePerSlot ==
    [][\A c \in Callers :
          (call[c].pc = "rmDelete" /\ call'[c].pc # "rmDelete")
          => /\ Load(peers, call[c].rcpt) # {}
             /\ \A e \in call[c].slot :
                   e.kind = Established => ~sess[e.ref].closed]_vars

----------------------------------------------------------------------------
(* Properties of the inbound side, checked under SpecInbound.              *)

\* C11: a Request that returns a reply returns a body that came over a
\* session of its recipient and carries the nonce this call was assigned;
\* a body of another nonce or of another remote is never returned by it.
ReplyCorrelation ==
    [][\A c \in Callers :
          (/\ call[c].pc = "awaitReply"
           /\ call'[c].pc = "idle"
           /\ call'[c].result = "reply")
          => call'[c].got = <<Body(call[c].rcpt, call[c].nonce)>>]_vars

\* A Request has returned its reply, and a body of another remote carrying
\* that same nonce has gone to the services.
ReplyCorrelationWitness ==
    \E c \in Callers :
        /\ call[c].result = "reply"
        /\ inbound.kind = "body"
        /\ inbound.to = "services"
        /\ sess[inbound.sess].remote # call[c].got[1].from
        /\ inbound.nonce = call[c].got[1].nonce

\* C12: a Request whose deadline has elapsed and that returns without a
\* reply returns the context's error, also when the deadline elapsed while
\* the call waited for the dial or for the key exchange.
DeadlineHonoured ==
    [][\A c \in Callers :
          (/\ call[c].op = "Request"
           /\ call[c].late
           /\ call[c].pc # "idle"
           /\ call'[c].pc = "idle"
           /\ call'[c].result # "reply")
          => call'[c].result = "ErrTimeout"]_vars

\* C14: a frame whose declared length exceeds MaxPayloadLen ends the
\* receiver with the nil callback and nothing delivered, and the removal the
\* dispatcher then makes closes the session the frame came over.
OversizedFrameClosesSession ==
    [][\A s \in Sessions :
          (/\ sess[s].recv = "running"
           /\ sess'[s].recv = "ended"
           /\ inbound'.sess = s
           /\ inbound'.kind = "long")
          => /\ inbound'.to = "nil"
             /\ replies' = replies
             /\ sess'[s].closed]_vars

\* C19: a frame that fails UnwrapMessage or DeserializeMessageBody reaches
\* no request and no service, and the peer it came from is removed from the
\* registry.
UndecodableFrameFatal ==
    [][(inbound' # inbound /\ inbound'.kind = "garbled")
          => /\ inbound'.to \notin {"request", "blocked", "services", "panic"}
             /\ replies' = replies
             /\ Load(peers', sess[inbound'.sess].remote) = {}]_vars

\* C20: a decoded body whose (remote, nonce) is registered in Requests goes
\* to the reply channel of that request (into its buffer, or waiting at it
\* while the buffer is taken) and to no service; any other body, those of
\* nonce 0 included, goes to the services and changes no reply channel.
ExclusiveDispatch ==
    [][(/\ inbound'.kind = "body"
        /\ inbound' # inbound \/ (replies' # replies /\ call' = call))
          => LET n == inbound'.nonce
                 b == Body(sess[inbound'.sess].remote, n)
             IN IF ReqKey(b.from, n) \in Requests
                THEN \/ /\ inbound'.to = "request"
                        /\ replies' = [replies EXCEPT ![n] = <<b>>]
                     \/ /\ inbound'.to = "blocked"
                        /\ replies[n] # <<>>
                        /\ replies' = replies
                ELSE /\ inbound'.to = "services"
                     /\ replies' = replies]_vars

\* A reply stands in the buffer of the request it matched, and still does
\* while a body the registry does not match went to the services.
ExclusiveDispatchWitness ==
    /\ inbound.kind = "body"
    /\ inbound.to = "services"
    /\ \E q \in Requests :
          /\ replies[q.nonce] = <<Body(q.key, q.nonce)>>
          /\ inbound.nonce \in {0, q.nonce}

----------------------------------------------------------------------------
(* Properties of the receive task, checked under SpecRecv.                 *)

\* C15: the callbacks made so far carry, one for one and in order, the
\* frames that arrived first; nil comes last and once, when the worker is
\* through, and nothing follows it; a worker that is through on a
\* connection nobody closed has delivered every frame ahead of the first
\* end of stream or framing error; and once the stream has ended or a
\* framing error has arrived, the running worker gets to the nil callback.
ReceiveTaskDelivery ==
    /\ [](LET n == Len(delivered)
              k == IF n > 0 /\ delivered[n].nil THEN n - 1 ELSE n
          IN
          /\ \A i \in 1..k :
                /\ ~delivered[i].nil
                /\ i <= Len(arrived)
                /\ arrived[i].kind = "frame"
                /\ delivered[i].buf = arrived[i].buf
          /\ (worker = "done") <=> (k < n)
          /\ (worker = "done" /\ \A i \in 1..Len(arrived) : arrived[i] # Closed)
                => /\ k < Len(arrived)
                   /\ arrived[k + 1].kind \in {"long", "cut", "eof"})
    /\ (worker # "none" /\ \E i \in 1..Len(arrived) : arrived[i].kind # "frame")
          ~> (worker = "done")
    /\ [](worker = "done" => [](worker = "done"))

\* A frame, an oversized frame and another frame arrived: the first was
\* delivered, then nil, and the last one stays unread.
ReceiveTaskDeliveryWitness ==
    /\ worker = "done"
    /\ delivered = <<Message(1), NilMessage>>
    /\ Len(arrived) = 3
    /\ arrived[2].kind = "long"
    /\ arrived[3] = [kind |-> "frame", buf |-> 2]
    /\ conn = <<arrived[3]>>

----------------------------------------------------------------------------
(* Properties of the discovery service, checked under SpecDiscovery.       *)

\* C17: a message of a sender whose id does not differ from the node's in
\* more than prefixDiffMin of the first prefixDiffLength bits leaves the
\* routing table as it was, so that a sender is added or moved to the front
\* only past the gate; and whatever the gate says, a PING is answered with
\* a PONG and a lookup request that parses with a LOOKUP_RESPONSE, unless
\* the handler is switched off.
SenderGate ==
    [][handled'.sender # <<>> =>
          LET m == handled'
              sender == m.sender[1]
          IN
          /\ PrefixDiff(sender.Id, self.Id, prefixDiffLength) <= prefixDiffMin
                => buckets' = buckets
          /\ (m.opcode = "PING" /\ "ping" \notin m.disabled)
                => m.reply = "PONG"
          /\ (m.opcode = "LOOKUP_REQUEST" /\ "lookup" \notin m.disabled
                /\ m.wellFormed)
                => m.reply = "LOOKUP_RESPONSE"]_vars

\* The PING of a sender 32 bits away was answered with a PONG; the table
\* holds a peer 33 bits away and not the sender.
SenderGateWitness ==
    /\ handled.sender = <<CreateID("a1", "M")>>
    /\ handled.opcode = "PING"
    /\ handled.reply = "PONG"
    /\ buckets[0] = <<CreateID("a1", "X")>>
    /\ PrefixDiff(HashBytes("M"), self.Id, prefixDiffLength) = prefixDiffMin
    /\ PrefixDiff(HashBytes("X"), self.Id, prefixDiffLength) = prefixDiffMin + 1

\* C18: in the PONG branch a peer FindNode returned gets into the routing
\* table only if its own id differs from the node's in more than
\* prefixDiffMin of the first prefixDiffLength bits.
DiscoveredGate ==
    [][handled'.opcode = "PONG" =>
          \A i \in 1..Len(handled'.found) :
             LET p == handled'.found[i]
                 b == GetBucketID(self, p.Id)
             IN (/\ p # handled'.sender[1]
                 /\ FindInBucket(buckets[b], p.Id) = 0
                 /\ FindInBucket(buckets'[b], p.Id) # 0)
                => PrefixDiff(p.Id, self.Id, prefixDiffLength) > prefixDiffMin]_vars

\* ------------------------------------------------------------------------
\* skademlia.IdentityAdapter: the static and dynamic crypto puzzles
\* ------------------------------------------------------------------------

\* The largest puzzle cost a constructor is called with.
MaxC == 2

\* randomBytes(len(nodeID)) for the one-byte ids of PublicKeys: sixteen of
\* the byte values, spread over the range.
Nonces == {<<x * 17>> : x \in 0..15}

\* blake2b.HashBytes on a byte slice (a node id, or a node id xor a nonce):
\* a permutation of the byte values that spreads the leading zero bits.
HashBytesOfID(a) == [i \in 1..Len(a) |-> (a[i] * 167 + 13) % 256]

\* checkHashedBytesPrefixLen
CheckHashedBytesPrefixLen(a, c) == PrefixLen(HashBytesOfID(a)) >= c

\* checkDynamicPuzzle
CheckDynamicPuzzle(nodeID, x, c) ==
    CheckHashedBytesPrefixLen(Xor(nodeID, x), c)

\* getNonce without the test of its loop: the first random slice.
GetNonce_Unchecked(nodeID, c) == Nonces

\* getNonce: the slices its loop can stop on.
GetNonce(nodeID, c) ==
    {x \in Nonces : CheckDynamicPuzzle(nodeID, x, c)}

\* generateKeyPairAndNonce: the pairs its loop can stop on.
GenerateKeyPairAndNonce(c1, c2) ==
    {<<kp, x>> \in PublicKeys \X Nonces :
        /\ CheckHashedBytesPrefixLen(HashBytes(kp), c1)
        /\ x \in GetNonce(HashBytes(kp), c2)}

\* VerifyPuzzle
VerifyPuzzle(publicKey, id, nonce, c1, c2) ==
    /\ HashBytes(publicKey) = id
    /\ CheckHashedBytesPrefixLen(id, c1)
    /\ CheckDynamicPuzzle(id, nonce, c2)

\* A step of one of the components beside the table and the node leaves
\* the table, the node and the other components as they are; Request's
\* draw of a nonce also writes n.RequestNonce, and Accept's loop starts
\* and ends the setup of a connection.
Framed(changed) ==
    /\ UNCHANGED <<routeVars, peers, pend, sess, installed, Requests,
                   replies, cancelled, call, inbound, recvVars, handled>>
    /\ IF changed = "drawn" THEN TRUE ELSE UNCHANGED RequestNonce
    /\ IF changed = "identity" THEN TRUE ELSE UNCHANGED identity
    /\ IF changed \in {"setup", "accept"} THEN TRUE ELSE UNCHANGED setup
    /\ IF changed = "bcast" THEN TRUE ELSE UNCHANGED bcast
    /\ IF changed = "diff" THEN TRUE ELSE UNCHANGED diff
    /\ IF changed = "drawn" THEN TRUE ELSE UNCHANGED drawn
    /\ IF changed = "guarded" THEN TRUE ELSE UNCHANGED guarded
    /\ IF changed = "forward" THEN TRUE ELSE UNCHANGED forward
    /\ IF changed = "accept" THEN TRUE ELSE UNCHANGED accept
    /\ IF changed = "request" THEN TRUE ELSE UNCHANGED request

\* NewIdentityAdapter(c1, c2)
NewIdentityAdapter(c1, c2) ==
    /\ \E g \in GenerateKeyPairAndNonce(c1, c2) :
         identity' = [op |-> "NewIdentityAdapter", pk |-> g[1],
                      nodeID |-> HashBytes(g[1]), nonce |-> g[2],
                      c1 |-> c1, c2 |-> c2, err |-> "nil"]
    /\ Framed("identity")

\* NewIdentityFromKeypair(kp, c1, c2): nil and an error when the id of the
\* key pair fails the static puzzle.
NewIdentityFromKeypair(kp, c1, c2) ==
    /\ LET id == HashBytes(kp) IN
       IF ~CheckHashedBytesPrefixLen(id, c1)
       THEN identity' = [op |-> "NewIdentityFromKeypair", pk |-> kp,
                         nodeID |-> <<>>, nonce |-> <<>>,
                         c1 |-> c1, c2 |-> c2, err |-> "static puzzle"]
       ELSE \E x \in GetNonce(id, c2) :
              identity' = [op |-> "NewIdentityFromKeypair", pk |-> kp,
                           nodeID |-> id, nonce |-> x,
                           c1 |-> c1, c2 |-> c2, err |-> "nil"]
    /\ Framed("identity")

NextIdentity ==
    \/ \E c1 \in 0..MaxC, c2 \in 0..MaxC : NewIdentityAdapter(c1, c2)
    \/ \E kp \in PublicKeys, c1 \in 0..MaxC, c2 \in 0..MaxC :
         NewIdentityFromKeypair(kp, c1, c2)

SpecIdentity == Init /\ [][NextIdentity]_vars

\* C22: every identity a constructor returns without error passes
\* VerifyPuzzle for its public key, its node id = H(public key) and its
\* nonce under the costs it was built with; NewIdentityFromKeypair returns
\* an error and no identity exactly when the id fails the static puzzle.
PuzzleSoundness ==
    /\ (identity.op # "none" /\ identity.err = "nil") =>
          /\ identity.nodeID = HashBytes(identity.pk)
          /\ VerifyPuzzle(identity.pk, identity.nodeID, identity.nonce,
                          identity.c1, identity.c2)
    /\ identity.op = "NewIdentityFromKeypair" =>
          /\ (identity.err # "nil") <=>
                ~CheckHashedBytesPrefixLen(HashBytes(identity.pk), identity.c1)
          /\ identity.err # "nil" => identity.nodeID = <<>>
    /\ identity.op = "NewIdentityAdapter" => identity.err = "nil"

PuzzleSoundnessWitness ==
    /\ identity.op = "NewIdentityFromKeypair"
    /\ identity.err = "nil"
    /\ identity.c1 = 1
    /\ identity.c2 = MaxC
    /\ identity.nonce # identity.nodeID
    /\ \E x \in Nonces :
         ~VerifyPuzzle(identity.pk, identity.nodeID, x, identity.c1,
                       identity.c2)

\* ------------------------------------------------------------------------
\* base.MessageAdapter: the setup exchange of NewMessageAdapterActive and
\* NewMessageAdapterPassive over one connection
\* ------------------------------------------------------------------------

\* The longest id and the longest address the constructors accept.
MaxIDLen == 255
MaxAddrLen == 255

\* The ids (public keys) and the addresses, as byte strings, the two sides
\* are constructed with.
SetupIDs == {<<7>>, <<9>>, <<7, 0, 0>>}
SetupAddrs == {<<>>, <<97>>, <<98, 99>>}

\* io.ReadFull(conn, buf) when the stream holds len(buf) bytes: what it
\* reads and what it leaves.
Take(s, n) == SubSeq(s, 1, n)
Drop(s, n) == SubSeq(s, n + 1, Len(s))

\* append([]byte{byte(len(addr))}, []byte(addr)...)
LenPrefixed(addr) == <<Len(addr) % 256>> \o addr

\* ConnectionAdapter.Dial on one node and Accept on the other: both
\* constructors are called on the two ends of a fresh connection.
Connect(local, remote, localAddr, remoteAddr, plocal, plocalAddr) ==
    /\ setup.active.pc = "none"
    /\ setup' = [NoSetup EXCEPT
         !.active.pc = "check", !.active.local = local,
         !.active.remote = remote, !.active.localAddr = localAddr,
         !.active.remoteAddr = remoteAddr,
         !.passive.pc = "check", !.passive.local = plocal,
         !.passive.configured = plocalAddr,
         !.passive.localAddr = plocalAddr]
    /\ Framed("setup")

\* The connection fails under the constructors.
ConnFails ==
    /\ setup.active.pc # "none"
    /\ ~setup.broken
    /\ setup.active.pc \notin {"done", "failed"}
         \/ setup.passive.pc \notin {"done", "failed"}
    /\ setup' = [setup EXCEPT !.broken = TRUE]
    /\ Framed("setup")

\* The constructor of one side returns (nil, err) after conn.Close().
FailWith(side, e) ==
    [setup EXCEPT ![side].pc = "failed", ![side].err = e, !.broken = TRUE]

\* NewMessageAdapterPassive, one statement at a time.
PassiveCheck ==
    /\ setup.passive.pc = "check"
    /\ setup' = IF Len(setup.passive.local) > MaxIDLen
                THEN [setup EXCEPT !.passive.pc = "failed",
                                   !.passive.err = "id too long"]
                ELSE [setup EXCEPT !.passive.pc = "readRemote"]
    /\ Framed("setup")

PassiveReadRemote ==
    /\ setup.passive.pc = "readRemote"
    /\ LET n == Len(setup.passive.local) IN
       IF Len(setup.a2p) >= n
       THEN setup' = [setup EXCEPT !.passive.remote = Take(setup.a2p, n),
                                   !.a2p = Drop(setup.a2p, n),
                                   !.passive.pc = "writeLocal"]
       ELSE /\ setup.broken
            /\ setup' = FailWith("passive", "read")
    /\ Framed("setup")

PassiveWriteLocal ==
    /\ setup.passive.pc = "writeLocal"
    /\ setup' = IF setup.broken
                THEN FailWith("passive", "write")
                ELSE [setup EXCEPT !.p2a = @ \o setup.passive.local,
                                   !.passive.pc = "readLocalLen"]
    /\ Framed("setup")

PassiveReadLen ==
    /\ setup.passive.pc \in {"readLocalLen", "readRemoteLen"}
    /\ IF Len(setup.a2p) >= 1
       THEN setup' = [setup EXCEPT
                !.passive.byteBuf = setup.a2p[1],
                !.a2p = Drop(setup.a2p, 1),
                !.passive.pc =
                    IF setup.passive.pc = "readLocalLen"
                    THEN IF setup.a2p[1] > 0 THEN "readLocalAddr"
                                             ELSE "readRemoteLen"
                    ELSE IF setup.a2p[1] > 0 THEN "readRemoteAddr"
                                             ELSE "build"]
       ELSE /\ setup.broken
            /\ setup' = FailWith("passive", "read")
    /\ Framed("setup")

PassiveReadLocalAddr ==
    /\ setup.passive.pc = "readLocalAddr"
    /\ LET localLen == setup.passive.byteBuf IN
       IF Len(setup.a2p) >= localLen
       THEN setup' = [setup EXCEPT
                !.passive.localAddr = Take(setup.a2p, localLen),
                !.a2p = Drop(setup.a2p, localLen),
                !.passive.pc = "readRemoteLen"]
       ELSE /\ setup.broken
            /\ setup' = FailWith("passive", "read")
    /\ Framed("setup")

PassiveReadRemoteAddr ==
    /\ setup.passive.pc = "readRemoteAddr"
    /\ LET remoteLen == setup.passive.byteBuf IN
       IF Len(setup.a2p) >= remoteLen
       THEN setup' = [setup EXCEPT
                !.passive.remoteAddr = Take(setup.a2p, remoteLen),
                !.a2p = Drop(setup.a2p, remoteLen),
                !.passive.pc = "build"]
       ELSE /\ setup.broken
            /\ setup' = FailWith("passive", "read")
    /\ Framed("setup")

PassiveBuild ==
    /\ setup.passive.pc = "build"
    /\ setup' = [setup EXCEPT
         !.passive.pc = "done",
         !.passive.metadata = [local |-> setup.passive.local,
                               remote |-> setup.passive.remote,
                               localAddr |-> setup.passive.localAddr,
                               remoteAddr |-> setup.passive.remoteAddr]]
    /\ Framed("setup")

\* NewMessageAdapterActive, one statement at a time.
ActiveCheck ==
    /\ setup.active.pc = "check"
    /\ setup' =
         IF Len(setup.active.local) > MaxIDLen
              \/ Len(setup.active.remote) > MaxIDLen
         THEN [setup EXCEPT !.active.pc = "failed",
                            !.active.err = "id too long"]
         ELSE IF Len(setup.active.remoteAddr) > MaxAddrLen
                   \/ Len(setup.active.localAddr) > MaxAddrLen
              THEN FailWith("active", "address too long")
              ELSE [setup EXCEPT !.active.pc = "writeLocal"]
    /\ Framed("setup")

ActiveWriteLocal ==
    /\ setup.active.pc = "writeLocal"
    /\ setup' = IF setup.broken
                THEN FailWith("active", "write")
                ELSE [setup EXCEPT !.a2p = @ \o setup.active.local,
                                   !.active.pc = "readRemote"]
    /\ Framed("setup")

ActiveReadRemote ==
    /\ setup.active.pc = "readRemote"
    /\ LET n == Len(setup.active.local) IN
       IF Len(setup.p2a) >= n
       THEN setup' =
              IF Take(setup.p2a, n) # setup.active.remote
              THEN [FailWith("active", "inconsistent remotes") EXCEPT
                        !.active.recvRemote = Take(setup.p2a, n),
                        !.p2a = Drop(setup.p2a, n)]
              ELSE [setup EXCEPT !.active.recvRemote = Take(setup.p2a, n),
                                 !.p2a = Drop(setup.p2a, n),
                                 !.active.pc = "writeRemoteAddr"]
       ELSE /\ setup.broken
            /\ setup' = FailWith("active", "read")
    /\ Framed("setup")

\* The two address writes in the other order: the local address first.
ActiveWriteAddr_LocalFirst ==
    /\ setup.active.pc \in {"writeRemoteAddr", "writeLocalAddr"}
    /\ setup' =
         IF setup.broken
         THEN FailWith("active", "write")
         ELSE IF setup.active.pc = "writeRemoteAddr"
              THEN [setup EXCEPT
                      !.a2p = @ \o LenPrefixed(setup.active.localAddr),
                      !.active.pc = "writeLocalAddr"]
              ELSE [setup EXCEPT
                      !.a2p = @ \o LenPrefixed(setup.active.remoteAddr),
                      !.active.pc = "build"]
    /\ Framed("setup")

\* The two address writes of NewMessageAdapterActive: the remote address,
\* then the local address, each behind its length byte.
ActiveWriteAddr ==
    /\ setup.active.pc \in {"writeRemoteAddr", "writeLocalAddr"}
    /\ setup' =
         IF setup.broken
         THEN FailWith("active", "write")
         ELSE IF setup.active.pc = "writeRemoteAddr"
              THEN [setup EXCEPT
                      !.a2p = @ \o LenPrefixed(setup.active.remoteAddr),
                      !.active.pc = "writeLocalAddr"]
              ELSE [setup EXCEPT
                      !.a2p = @ \o LenPrefixed(setup.active.localAddr),
                      !.active.pc = "build"]
    /\ Framed("setup")

ActiveBuild ==
    /\ setup.active.pc = "build"
    /\ setup' = [setup EXCEPT
         !.active.pc = "done",
         !.active.metadata = [local |-> setup.active.local,
                              remote |-> setup.active.remote,
                              localAddr |-> setup.active.localAddr,
                              remoteAddr |-> setup.active.remoteAddr]]
    /\ Framed("setup")

NextSetup ==
    \/ \E local \in SetupIDs, remote \in SetupIDs, plocal \in SetupIDs,
          localAddr \in SetupAddrs, remoteAddr \in SetupAddrs,
          plocalAddr \in SetupAddrs :
         Connect(local, remote, localAddr, remoteAddr, plocal, plocalAddr)
    \/ ConnFails
    \/ PassiveCheck
    \/ PassiveReadRemote
    \/ PassiveWriteLocal
    \/ PassiveReadLen
    \/ PassiveReadLocalAddr
    \/ PassiveReadRemoteAddr
    \/ PassiveBuild
    \/ ActiveCheck
    \/ ActiveWriteLocal
    \/ ActiveReadRemote
    \/ ActiveWriteAddr
    \/ ActiveBuild

SpecSetup == Init /\ [][NextSetup]_vars

\* C23: after both constructors have returned an adapter on one connection,
\* the passive adapter's remote id is the active side's local id, its
\* localAddr is the remote address the active side wrote, and its
\* remoteAddr is the active side's local address.
SetupAddressExchange ==
    (setup.active.pc = "done" /\ setup.passive.pc = "done") =>
        /\ setup.passive.metadata.remote = setup.active.local
        /\ setup.passive.metadata.localAddr = setup.active.remoteAddr
        /\ setup.passive.metadata.remoteAddr = setup.active.localAddr

\* C23, with the empty remote address set apart: after both constructors
\* have returned an adapter on one connection, the passive adapter's remote
\* id is the active side's local id, its remoteAddr is the active side's
\* local address, and its localAddr is the remote address the active side
\* wrote when that address is not empty, the address the passive side was
\* constructed with when it is empty.
SetupAddressExchangeNonEmpty ==
    (setup.active.pc = "done" /\ setup.passive.pc = "done") =>
        /\ setup.passive.metadata.remote = setup.active.local
        /\ setup.passive.metadata.localAddr =
              IF setup.active.remoteAddr # <<>>
              THEN setup.active.remoteAddr
              ELSE setup.passive.configured
        /\ setup.passive.metadata.remoteAddr = setup.active.localAddr

SetupAddressExchangeWitness ==
    /\ setup.active.pc = "done"
    /\ setup.passive.pc = "done"
    /\ setup.active.remoteAddr = <<98, 99>>
    /\ setup.passive.configured = <<97>>
    /\ setup.active.localAddr = <<97>>
    /\ setup.passive.metadata.localAddr = <<98, 99>>
    /\ Len(setup.active.local) = 3

\* ------------------------------------------------------------------------
\* protocol.Node.BroadcastRandomly over a registry of slots
\* ------------------------------------------------------------------------

\* The largest maxPeers BroadcastRandomly is called with.
MaxPeers == 1

\* The orders a walk or a shuffle can put the keys of a set in.
Orders(S) ==
    {o \in [1..Cardinality(S) -> S] : \A i, j \in DOMAIN o :
                                         i # j => o[i] # o[j]}

\* n.peers.Range with the callback of BroadcastRandomly over the keys in
\* the order ord, from position i with the ids collected so far: the id of
\* every *EstablishedPeer slot is appended, and the walk goes on while
\* len(peerIDs) <= maxPeers*3.
RECURSIVE RangeFrom(_, _, _, _, _)
RangeFrom(reg, ord, i, peerIDs, maxPeers) ==
    IF i > Len(ord)
    THEN peerIDs
    ELSE LET ids == IF reg[ord[i]] = "established"
                    THEN Append(peerIDs, ord[i])
                    ELSE peerIDs
         IN IF Len(ids) <= maxPeers * 3
            THEN RangeFrom(reg, ord, i + 1, ids, maxPeers)
            ELSE ids

\* The sends of the loop over the shuffled ids: Send to peerIDs[i] for
\* i < maxPeers, up to and including the first one that fails.
RECURSIVE SendLoop(_, _, _, _)
SendLoop(peerIDs, i, maxPeers, failing) ==
    IF i > maxPeers
    THEN <<>>
    ELSE IF peerIDs[i] \in failing
         THEN <<peerIDs[i]>>
         ELSE <<peerIDs[i]>> \o SendLoop(peerIDs, i + 1, maxPeers, failing)

\* peers.Store of a slot under a key: a pending or an established peer.
StoreSlot(key, kind) ==
    /\ key \notin DOMAIN bcast.peers
    /\ bcast' = [NoBroadcast EXCEPT
                    !.peers = [k \in DOMAIN bcast.peers \cup {key} |->
                                  IF k = key THEN kind ELSE bcast.peers[k]]]
    /\ Framed("bcast")

\* BroadcastRandomly(ctx, body, maxPeers): Range visits the slots in the
\* order ord, rand.Shuffle leaves the ids in some order, and Send fails for
\* the recipients in failing.
BroadcastRandomly(maxPeers, ord, failing) ==
    /\ \E sample \in {RangeFrom(bcast.peers, ord, 1, <<>>, maxPeers)} :
       \E shuffled \in {[i \in 1..Len(sample) |-> sample[p[i]]] :
                            p \in Orders(1..Len(sample))} :
         LET n == IF Len(shuffled) < maxPeers THEN Len(shuffled)
                                               ELSE maxPeers
             sent == SendLoop(shuffled, 1, n, failing)
         IN bcast' = [bcast EXCEPT
                !.op = "BroadcastRandomly", !.maxPeers = maxPeers,
                !.peerIDs = shuffled, !.sent = sent, !.failed = failing,
                !.err = IF sent # <<>> /\ sent[Len(sent)] \in failing
                        THEN "send" ELSE "nil"]
    /\ Framed("bcast")

NextBroadcast ==
    \/ \E key \in {"P1", "P2", "P3", "P4"}, kind \in {"pending", "established"} :
         StoreSlot(key, kind)
    \/ \E maxPeers \in 0..MaxPeers, ord \in Orders(DOMAIN bcast.peers),
          failing \in SUBSET {k \in DOMAIN bcast.peers :
                                  bcast.peers[k] = "established"} :
         BroadcastRandomly(maxPeers, ord, failing)

SpecBroadcast == Init /\ [][NextBroadcast]_vars

\* C24: BroadcastRandomly(body, k) samples at most 3k established peers,
\* sends to at most min(k, sampled) of them, each once, stops at the first
\* Send that fails and returns its error, and returns nil when every send
\* it attempted succeeded.
BroadcastBounded ==
    bcast.op = "BroadcastRandomly" =>
        /\ Len(bcast.peerIDs) <= 3 * bcast.maxPeers
        /\ \A i \in DOMAIN bcast.peerIDs :
              bcast.peers[bcast.peerIDs[i]] = "established"
        /\ Len(bcast.sent) <= bcast.maxPeers
        /\ Len(bcast.sent) <= Len(bcast.peerIDs)
        /\ \A i, j \in DOMAIN bcast.sent :
              /\ bcast.sent[i] \in {bcast.peerIDs[m] : m \in DOMAIN bcast.peerIDs}
              /\ i # j => bcast.sent[i] # bcast.sent[j]
              /\ i < Len(bcast.sent) => bcast.sent[i] \notin bcast.failed
        /\ bcast.err = "nil" <=>
              \A i \in DOMAIN bcast.sent : bcast.sent[i] \notin bcast.failed

\* ------------------------------------------------------------------------
\* peer.PrefixDiff as a function of two slices and a bit count
\* ------------------------------------------------------------------------

\* The largest bit count PrefixDiff is called with: one past the sixteen
\* bits of the slices.
MaxL == 17

\* The slices PrefixDiff is called with: "aa", "ab" and "1e" of
\* TestPrefixDiff, and slices with the first and the last bit set.
DiffSlices ==
    {<<97, 97>>, <<97, 98>>, <<49, 101>>, <<0, 0>>, <<255, 255>>, <<128, 1>>}

InitPrefixDiff ==
    /\ InitNode
    /\ zeroSlack = 1
    /\ NewRoutingTableWithOptions(CreateID("a1", SelfPK), defaultBucketSize)
    /\ \E a \in DiffSlices, b \in DiffSlices, n \in 0..MaxL :
         diff = [NoDiff EXCEPT !.a = a, !.b = b, !.n = n]

\* diff := PrefixDiff(a, b, n)
CallPrefixDiff ==
    /\ diff.out = -1
    /\ diff' = [diff EXCEPT !.out = PrefixDiff(diff.a, diff.b, diff.n)]
    /\ Framed("diff")

\* diff = PrefixDiff(a, b, n + 1), the value for n kept aside.
CallPrefixDiffLonger ==
    /\ diff.out # -1
    /\ diff.n < MaxL
    /\ diff' = [diff EXCEPT !.n = diff.n + 1, !.shorter = diff.out,
                            !.out = PrefixDiff(diff.a, diff.b, diff.n + 1)]
    /\ Framed("diff")

NextPrefixDiff == CallPrefixDiff \/ CallPrefixDiffLonger

SpecPrefixDiff == InitPrefixDiff /\ [][NextPrefixDiff]_vars

\* C25: PrefixDiff(a, b, L) is the number of bit positions i < L, counted
\* from the most significant bit of byte 0, at which a and b differ; it is
\* 0 for L = 0 and does not decrease when L grows.
PrefixDiffIsHamming ==
    diff.out # -1 =>
        LET Bit(x, i) == (x[(i \div 8) + 1] \div (2 ^ (7 - (i % 8)))) % 2
            differing == {i \in 0..(diff.n - 1) :
                             /\ i < 8 * Len(diff.a)
                             /\ Bit(diff.a, i) # Bit(diff.b, i)}
        IN /\ diff.out = Cardinality(differing)
           /\ diff.n = 0 => diff.out = 0
           /\ diff.shorter # -1 => diff.shorter <= diff.out

\* PrefixDiff("aa", "1e", 14) = 3 after PrefixDiff("aa", "1e", 13) = 2.
PrefixDiffIsHammingWitness ==
    /\ diff.a = <<97, 97>>
    /\ diff.b = <<49, 101>>
    /\ diff.n = 14
    /\ diff.out = 3
    /\ diff.shorter = 2

\* ------------------------------------------------------------------------
\* protocol.Node.Request: the nonces of concurrent calls
\* ------------------------------------------------------------------------

\* Requests that draw a nonce in a run.
MaxDraws == 7

\* The increment as a load and a store that another caller's store
\* overwrites: the caller takes RequestNonce + 1 and the counter stays.
RequestDraw_LostUpdate(c, valid) ==
    /\ drawn.by[c] = 0
    /\ IF valid
       THEN /\ RequestNonce < MaxDraws
            /\ \/ RequestNonce' = RequestNonce + 1
               \/ RequestNonce' = RequestNonce
            /\ drawn' = [drawn EXCEPT
                   !.nonces = Append(@, RequestNonce + 1),
                   !.by[c] = RequestNonce + 1, !.refused = "none"]
       ELSE /\ drawn' = [drawn EXCEPT !.refused = c]
            /\ UNCHANGED RequestNonce
    /\ Framed("drawn")

\* Node.Request of caller c up to the nonce: the validation of the
\* arguments, then body.RequestNonce = atomic.AddUint64(&n.RequestNonce, 1).
RequestDraw(c, valid) ==
    /\ drawn.by[c] = 0
    /\ IF valid
       THEN /\ RequestNonce < MaxDraws
            /\ RequestNonce' = RequestNonce + 1
            /\ drawn' = [drawn EXCEPT
                   !.nonces = Append(@, RequestNonce + 1),
                   !.by[c] = RequestNonce + 1, !.refused = "none"]
       ELSE /\ drawn' = [drawn EXCEPT !.refused = c]
            /\ UNCHANGED RequestNonce
    /\ Framed("drawn")

\* Node.Request of caller c returns: its Send failed, the reply came or
\* the context ended.
RequestReturns(c) ==
    /\ drawn.by[c] # 0
    /\ drawn' = [drawn EXCEPT !.by[c] = 0]
    /\ UNCHANGED RequestNonce
    /\ Framed("drawn")

NextNonce ==
    \/ \E c \in Callers, valid \in BOOLEAN : RequestDraw(c, valid)
    \/ \E c \in Callers : RequestReturns(c)

SpecNonce == Init /\ [][NextNonce]_vars

\* C26: every nonce a Request is assigned is nonzero and greater than every
\* nonce assigned before it, and two Requests running at the same time hold
\* different nonces.
NoncesFresh ==
    /\ \A i \in DOMAIN drawn.nonces :
          /\ drawn.nonces[i] # 0
          /\ \A j \in 1..(i - 1) : drawn.nonces[j] < drawn.nonces[i]
    /\ \A c, d \in Callers :
          (c # d /\ drawn.by[c] # 0 /\ drawn.by[d] # 0) =>
              drawn.by[c] # drawn.by[d]

NoncesFreshWitness ==
    /\ Len(drawn.nonces) = 3
    /\ drawn.by["c1"] = 3
    /\ drawn.by["c2"] = 1

\* ------------------------------------------------------------------------
\* The node dispatcher under a fair scheduler
\* ------------------------------------------------------------------------

\* The goroutine of caller c is scheduled while it can run: Dial and
\* EstablishPeerWithMessageAdapter return, RemovePeer runs to its end, and
\* a caller whose channel is closed leaves its select.
FairCaller(c) ==
    /\ WF_vars(GetPeerDialFails(c) \/ GetPeerDialled(c))
    /\ WF_vars(RemovePeerLoad(c))
    /\ WF_vars(RemovePeerDelete(c))
    /\ WF_vars(GetPeerWaitDone(c) \/ GetPeerCancelled(c))

\* The dispatcher with Send as its only call: the callers of getPeer, the
\* acceptor, the key exchange, Stop and the cancellation.
NextDial ==
    \/ \E c \in Callers, key \in Recipients, valid \in BOOLEAN :
          Send(c, key, valid)
    \/ \E c \in Callers : GetPeerWaitDone(c)
    \/ \E c \in Callers : GetPeerCancelled(c)
    \/ \E c \in Callers : GetPeerDialFails(c)
    \/ \E c \in Callers : GetPeerDialled(c)
    \/ \E c \in Callers : GetPeerKxFailed(c)
    \/ \E c \in Callers, ok \in BOOLEAN : SendMessage(c, ok)
    \/ \E c \in Callers : RemovePeerLoad(c)
    \/ \E c \in Callers : RemovePeerDelete(c)
    \/ \E key \in Keys : Accept(key)
    \/ \E s \in Sessions, ok \in BOOLEAN : ContinueKeyExchange(s, ok)
    \/ Stop
    \/ Cancel

SpecFair == Init /\ [][NextDial]_vars /\ \A c \in Callers : FairCaller(c)

\* C27: close(peer.Done) is executed once on a PendingPeer, not later than
\* the return of the getPeer that stored it, whichever way its dial went;
\* so every caller waiting on peer.Done leaves its wait.
DoneFiredOnce ==
    /\ [](\A p \in DOMAIN pend :
            /\ pend[p].closes <= 1
            /\ pend[p].Done <=> pend[p].closes = 1
            /\ pend[p].closes = 0 =>
                  \E c \in Callers :
                     /\ call[c].pend = p
                     /\ call[c].pc \in {"dial", "rmLoad", "rmDelete"})
    /\ \A c \in Callers :
          (call[c].pc = "waitDone") ~> (call[c].pc # "waitDone")

DoneFiredOnceWitness ==
    /\ \E c \in Callers : call[c].result = "ErrDial"
    /\ \E c \in Callers : call[c].result = "ErrEstablishedNil"
    /\ \A p \in DOMAIN pend : pend[p].closes = 1

\* C28: a caller of Send or Request invokes Dial only in the step in which
\* its LoadOrStore found no slot under the key and stored its PendingPeer;
\* a caller that finds a pending or an established slot waits on it and
\* does not dial, so no slot has two callers dialling for it.
NoDuplicateDial ==
    /\ [][\A c \in Callers :
            (call[c].pc # "dial" /\ call'[c].pc = "dial") =>
                /\ Load(peers, call'[c].rcpt) = {}
                /\ Slot(call'[c].rcpt, Pending, call'[c].pend) \in peers'
                /\ \A d \in Callers \ {c} : call'[d].pend # call'[c].pend]_vars
    /\ [](\A c, d \in Callers :
            (c # d /\ call[c].pc = "dial" /\ call[d].pc = "dial") =>
                call[c].pend # call[d].pend)

NoDuplicateDialWitness ==
    /\ call["c1"].pc = "dial"
    /\ call["c2"].pc = "waitDone"
    /\ call["c2"].op = "Request"
    /\ call["c2"].rcpt = call["c1"].rcpt
    /\ call["c2"].waited = call["c1"].pend

\* ------------------------------------------------------------------------
\* One bucket of the routing table, its RWMutex and concurrent callers:
\* AddRemoteID (Update, EvictLastSeenPeer, Update), RemovePeer and GetPeer
\* ------------------------------------------------------------------------

Threads == {"t1", "t2"}

\* The keys whose ids fall in the one bucket of these runs.
BucketPKs == {"A", "B", "C"}

\* The record of a call on the list: who made it, and who held the mutex.
Mutation(t, op) ==
    [by |-> t, op |-> op, writer |-> guarded.writer,
     readers |-> guarded.readers]

\* A goroutine calls AddRemoteID, RemovePeer or GetPeer with a key of the
\* bucket; each begins at the acquisition of the bucket's mutex.
CallTable(t, op, pk) ==
    /\ guarded.thr[t].pc = "idle"
    /\ guarded' = [guarded EXCEPT !.thr[t] =
           [pc |-> IF op = "GetPeer" THEN "RLock" ELSE "Lock",
            op |-> op, target |-> pk, element |-> ""]]
    /\ Framed("guarded")

\* bucket.mutex.Lock(): no writer and no reader inside.
MutexLock(t) ==
    /\ guarded.thr[t].pc = "Lock"
    /\ guarded.writer = "none"
    /\ guarded.readers = {}
    /\ guarded' = [guarded EXCEPT !.writer = t, !.thr[t].pc = "locked"]
    /\ Framed("guarded")

\* bucket.mutex.RLock(): no writer inside.
MutexRLock(t) ==
    /\ guarded.thr[t].pc = "RLock"
    /\ guarded.writer = "none"
    /\ guarded' = [guarded EXCEPT !.readers = @ \cup {t},
                                  !.thr[t].pc = "rlocked"]
    /\ Framed("guarded")

\* RoutingTable.Update between Lock and the deferred Unlock, and in
\* AddRemoteID what follows its return: EvictLastSeenPeer after the first
\* Update's ErrBucketFull.
UpdateLocked(t) ==
    LET me == guarded.thr[t]
        r == UpdateBucket(guarded.list, CreateID("a1", me.target),
                          MaxBucketSize)
    IN
    /\ me.pc = "locked"
    /\ me.op \in {"AddRemoteID", "AddRemoteID again"}
    /\ guarded' = [guarded EXCEPT
         !.list = r.list,
         !.mut = Mutation(t, "Update"),
         !.writer = "none",
         !.thr[t] = IF r.err = ErrBucketFull /\ me.op = "AddRemoteID"
                    THEN [me EXCEPT !.pc = "Back"]
                    ELSE IdleThread]
    /\ Framed("guarded")

\* RoutingTable.RemovePeer between Lock and Unlock.
RemoveLocked(t) ==
    LET me == guarded.thr[t]
        i == FindInBucket(guarded.list, HashBytes(me.target))
    IN
    /\ me.pc = "locked"
    /\ me.op = "RemovePeer"
    /\ guarded' = [guarded EXCEPT
         !.list = IF i = 0 THEN @ ELSE RemoveAt(@, i),
         !.mut = IF i = 0 THEN @ ELSE Mutation(t, "Remove"),
         !.writer = "none",
         !.thr[t] = IdleThread]
    /\ Framed("guarded")

\* RoutingTable.GetPeer between RLock and the deferred RUnlock.
GetPeerRLocked(t) ==
    /\ guarded.thr[t].pc = "rlocked"
    /\ guarded' = [guarded EXCEPT !.readers = @ \ {t},
                                  !.thr[t] = IdleThread]
    /\ Framed("guarded")

\* EvictLastSeenPeer: element := bucket.Back(), read with no lock taken;
\* element.Value of a nil element panics.
EvictBack(t) ==
    LET me == guarded.thr[t] IN
    /\ me.pc = "Back"
    /\ guarded' = [guarded EXCEPT !.thr[t] =
           IF guarded.list = <<>>
           THEN [me EXCEPT !.pc = "panicked"]
           ELSE [me EXCEPT !.pc = "Request",
                           !.element = guarded.list[Len(guarded.list)].PublicKey]]
    /\ Framed("guarded")

\* EvictLastSeenPeer after its Request: bucket.MoveToFront(element) on a
\* PONG, bucket.Remove(element) otherwise, with no lock taken; both leave
\* the list alone when the element is no longer in it.  AddRemoteID repeats
\* Update after a removal.
EvictMutate(t, outcome) ==
    LET me == guarded.thr[t]
        i == FindInBucket(guarded.list, HashBytes(me.element))
    IN
    /\ me.pc = "Request"
    /\ guarded' = [guarded EXCEPT
         !.list = IF i = 0 THEN @
                  ELSE IF outcome = "pong" THEN MoveToFront(@, i)
                  ELSE RemoveAt(@, i),
         !.mut = Mutation(t, IF outcome = "pong" THEN "MoveToFront"
                                                 ELSE "Remove"),
         !.thr[t] = IF outcome = "pong"
                    THEN IdleThread
                    ELSE [me EXCEPT !.pc = "Lock",
                                    !.op = "AddRemoteID again",
                                    !.element = ""]]
    /\ Framed("guarded")

NextLocks ==
    \/ \E t \in Threads, pk \in BucketPKs,
          op \in {"AddRemoteID", "RemovePeer", "GetPeer"} :
         CallTable(t, op, pk)
    \/ \E t \in Threads : MutexLock(t)
    \/ \E t \in Threads : MutexRLock(t)
    \/ \E t \in Threads : UpdateLocked(t)
    \/ \E t \in Threads : RemoveLocked(t)
    \/ \E t \in Threads : GetPeerRLocked(t)
    \/ \E t \in Threads : EvictBack(t)
    \/ \E t \in Threads, outcome \in {"pong", "other", "error"} :
         EvictMutate(t, outcome)

SpecLocks == Init /\ [][NextLocks]_vars

\* C29: every call that changes a bucket's list (PushFront, MoveToFront,
\* Remove), the eviction probe's included, is made by the holder of the
\* bucket's write lock, with no reader inside.
MutationsLocked ==
    guarded.mut.by # "none" =>
        /\ guarded.mut.writer = guarded.mut.by
        /\ guarded.mut.readers = {}

\* ------------------------------------------------------------------------
\* protocol.Node.processMessageBody: the loop over the registered services
\* ------------------------------------------------------------------------

\* The services a node is given.
ServiceNames == {"discovery", "app"}

\* Node.AddService: n.services = append(n.services, s)
AddService(svc) ==
    /\ \A i \in DOMAIN forward.services : forward.services[i] # svc
    /\ forward' = [NoForward EXCEPT !.services = Append(forward.services, svc)]
    /\ Framed("forward")

\* "for _, svc := range n.services" from the i-th service on: the services
\* whose Receive is called, the replies handed to Send with the nonce they
\* carry, and the error returned.  returns[i] is what the i-th Receive
\* returns, sendFails the services whose reply Send cannot deliver.
RECURSIVE ServiceLoop(_, _, _, _, _)
ServiceLoop(svcs, i, returns, sendFails, nonce) ==
    IF i > Len(svcs)
    THEN [invoked |-> <<>>, sent |-> <<>>, err |-> "nil"]
    ELSE IF returns[i] = "error"
         THEN [invoked |-> <<svcs[i]>>, sent |-> <<>>, err |-> "Receive"]
         ELSE IF returns[i] = "reply" /\ svcs[i] \in sendFails
              THEN [invoked |-> <<svcs[i]>>,
                    sent |-> <<[from |-> svcs[i], nonce |-> nonce]>>,
                    err |-> "Send"]
              ELSE LET rest == ServiceLoop(svcs, i + 1, returns, sendFails,
                                           nonce)
                   IN [invoked |-> <<svcs[i]>> \o rest.invoked,
                       sent |-> (IF returns[i] = "reply"
                                 THEN <<[from |-> svcs[i], nonce |-> nonce]>>
                                 ELSE <<>>) \o rest.sent,
                       err |-> rest.err]

\* processMessageBody for a body with this nonce: handed to the waiting
\* Request when its key is in Requests, to the services otherwise.
ForwardBody(nonce, matched, returns, sendFails) ==
    /\ LET r == IF matched
                THEN [invoked |-> <<>>, sent |-> <<>>, err |-> "nil"]
                ELSE ServiceLoop(forward.services, 1, returns, sendFails,
                                 nonce)
       IN forward' = [forward EXCEPT
              !.op = "processMessageBody", !.nonce = nonce,
              !.matched = matched, !.returns = returns,
              !.invoked = r.invoked, !.sent = r.sent, !.err = r.err]
    /\ Framed("forward")

NextServices ==
    \/ \E svc \in ServiceNames : AddService(svc)
    \/ \E nonce \in BodyNonces, matched \in BOOLEAN,
          returns \in [DOMAIN forward.services -> {"nil", "reply", "error"}],
          sendFails \in SUBSET ServiceNames :
         ForwardBody(nonce, matched, returns, sendFails)

SpecServices == Init /\ [][NextServices]_vars

\* C30: for a message not matched to a pending request, the Receive of
\* every registered service is called once, in registration order, and
\* every reply body a Receive returned is handed to Send with the nonce of
\* the incoming message.
EveryServiceReceives ==
    (forward.op = "processMessageBody" /\ ~forward.matched) =>
        /\ forward.invoked = forward.services
        /\ forward.sent =
              [k \in 1..Len(forward.sent) |->
                  [from |-> forward.sent[k].from, nonce |-> forward.nonce]]
        /\ \A i \in DOMAIN forward.services :
              forward.returns[i] = "reply" <=>
                  \E k \in DOMAIN forward.sent :
                      forward.sent[k].from = forward.services[i]

\* ------------------------------------------------------------------------
\* skademlia.ConnectionAdapter.Accept: the goroutine that turns inbound
\* connections into passive message adapters
\* ------------------------------------------------------------------------

\* The adapters one run of the loop delivers at most.
MaxAccepts == 2

\* []byte(s) of the strings of these runs: the public key of self, the
\* address the table was built with, and the addresses of SetupAddrs.
Bytes(s) ==
    CASE s = "" -> <<>>
      [] s = "a" -> <<97>>
      [] s = "bc" -> <<98, 99>>
      [] s = "a1" -> <<97, 49>>
      [] s = "S" -> <<83>>

\* string(b), the inverse of []byte(s).
String(b) == CHOOSE s \in {"", "a", "bc", "a1", "S"} : Bytes(s) = b

\* Accept up to the start of its goroutine: Routes.Self() returns the
\* table's peer.ID by value, and localPeer holds that copy.
AcceptCall ==
    /\ accept.pc = "none"
    /\ accept' = [accept EXCEPT !.pc = "loop", !.localPeer = self]
    /\ UNCHANGED setup
    /\ Framed("accept")

\* a.listener.Accept() returns a connection some node dialled, and
\* NewMessageAdapterPassive is called on it with the public key and the
\* address of localPeer.
ListenerAccept(local, remote, localAddr, remoteAddr) ==
    /\ accept.pc = "loop"
    /\ accept.sent < MaxAccepts
    /\ Connect(local, remote, localAddr, remoteAddr,
               Bytes(accept.localPeer.PublicKey),
               Bytes(accept.localPeer.Address))

\* NewMessageAdapterPassive returned an adapter: its localAddr is assigned
\* to localPeer.Address and the adapter is sent on the channel.
AcceptDeliver ==
    /\ accept.pc = "loop"
    /\ setup.passive.pc = "done"
    /\ accept' = [accept EXCEPT
         !.localPeer.Address = String(setup.passive.metadata.localAddr),
         !.localAddr = String(setup.passive.metadata.localAddr),
         !.supplied = setup.active.remoteAddr,
         !.sent = @ + 1]
    /\ setup' = NoSetup
    /\ Framed("accept")

\* NewMessageAdapterPassive returned an error: the loop continues.
AcceptContinue ==
    /\ accept.pc = "loop"
    /\ setup.passive.pc = "failed"
    /\ setup' = NoSetup
    /\ UNCHANGED accept
    /\ Framed("setup")

\* The controller's Cancellation is closed when the loop comes round: the
\* goroutine returns and closes the channel.
AcceptCancelled ==
    /\ accept.pc = "loop"
    /\ setup.passive.pc = "none"
    /\ accept' = [accept EXCEPT !.pc = "returned"]
    /\ UNCHANGED setup
    /\ Framed("accept")

NextAccept ==
    \/ AcceptCall
    \/ \E local \in SetupIDs, remote \in SetupIDs \cup {Bytes(SelfPK)},
          localAddr \in SetupAddrs, remoteAddr \in SetupAddrs :
         ListenerAccept(local, remote, localAddr, remoteAddr)
    \/ AcceptDeliver
    \/ AcceptContinue
    \/ AcceptCancelled
    \/ ConnFails
    \/ PassiveCheck
    \/ PassiveReadRemote
    \/ PassiveWriteLocal
    \/ PassiveReadLen
    \/ PassiveReadLocalAddr
    \/ PassiveReadRemoteAddr
    \/ PassiveBuild
    \/ ActiveCheck
    \/ ActiveWriteLocal
    \/ ActiveReadRemote
    \/ ActiveWriteAddr
    \/ ActiveBuild

SpecAccept == Init /\ [][NextAccept]_vars

\* C31: once Accept has delivered an adapter for a connection on which the
\* active side wrote a non-empty address for the local node, the address of
\* Routes.Self() is that address, and the node id and the public key of
\* Routes.Self() are those the table was built with.
AcceptStoresObservedAddress ==
    (accept.sent > 0 /\ accept.supplied # <<>>) =>
        /\ self.Address = String(accept.supplied)
        /\ self.Id = HashBytes(SelfPK)
        /\ self.PublicKey = SelfPK

\* ------------------------------------------------------------------------
\* Send on a node built by NewConnectionAdapter: Dial looks the remote up
\* in the routing table, and the discovery service is among n.services
\* ------------------------------------------------------------------------

\* RoutingTable.GetPeerFromPublicKey
GetPeerFromPublicKey(publicKey) == GetPeer(self, buckets, HashBytes(publicKey))

\* ConnectionAdapter.Dial returns an error before it dials: the remote is
\* not in the routing table, or its address is the local one.
DialLookupFails(c) ==
    /\ call[c].pc = "dial"
    /\ LET remotePeer == GetPeerFromPublicKey(call[c].rcpt) IN
         \/ remotePeer = <<>>
         \/ /\ remotePeer # <<>>
            /\ remotePeer[1].Address = self.Address
    /\ GetPeerDialFails(c)

\* ConnectionAdapter.Dial finds the remote and calls a.dialer on its
\* address.  The dialer, NewMessageAdapterActive or
\* EstablishPeerWithMessageAdapter fails and RemovePeer(remote) comes next,
\* or all succeed and the session is stored.
DialFound(c, ok) ==
    /\ call[c].pc = "dial"
    /\ \E remotePeer \in {GetPeerFromPublicKey(call[c].rcpt)} :
       /\ remotePeer # <<>>
       /\ remotePeer[1].Address # self.Address
       /\ IF ok
          THEN GetPeerDialled(c)
          ELSE
            /\ call' = [call EXCEPT ![c] =
                   [call[c] EXCEPT !.pc = "rmLoad",
                                   !.addr = remotePeer[1].Address]]
            /\ NodeUnchanged(<<peers, pend, sess, installed, Requests,
                               RequestNonce, replies, cancelled>>)

\* RemovePeer with the discovery service registered: Close of the slot
\* loaded, peers.Delete(id), and Service.PeerDisconnect(id), which removes
\* the peer from the routing table.
RemovePeerServices(c) ==
    LET rec == call[c]
        t == CreateID("", rec.rcpt)
        r == IF GetPeer(self, buckets, t.Id) # <<>>
             THEN RemoveTable(self, buckets, t.Id)
             ELSE [buckets |-> buckets, found |-> FALSE, err |-> NoErr]
    IN
    /\ rec.pc = "rmDelete"
    /\ sess' = CloseLoaded(sess, rec.slot)
    /\ peers' = Delete(peers, rec.rcpt)
    /\ AfterRemove(c)
    /\ buckets' = r.buckets
    /\ recency' = IF r.found THEN Forget(self, recency, t.Id) ELSE recency
    /\ ret' = Ret("PeerDisconnect", t, 0, BoolStr(r.found), <<>>)
    /\ UNCHANGED <<self, opts, zeroSlack, panicked, installed, Requests,
                   RequestNonce, replies, cancelled, inbound, recvVars,
                   handled, otherVars>>

NextRetry ==
    \/ \E key \in Recipients, addr \in Addresses : AddRemoteID(key, addr)
    \/ \E c \in Callers, key \in Recipients, valid \in BOOLEAN :
          Send(c, key, valid)
    \/ \E c \in Callers : DialLookupFails(c)
    \/ \E c \in Callers, ok \in BOOLEAN : DialFound(c, ok)
    \/ \E c \in Callers : GetPeerWaitDone(c)
    \/ \E c \in Callers : RemovePeerLoad(c)
    \/ \E c \in Callers : RemovePeerServices(c)
    \/ \E s \in Sessions : ContinueKeyExchange(s, TRUE)
    \/ \E c \in Callers : SendMessage(c, TRUE)

SpecRetry == Init /\ [][NextRetry]_vars

\* C32: when a Send returns its error after the dial or the establishment
\* of the session to a remote found in the routing table failed, the
\* routing table still has the remote's entry at the address dialled, and
\* the registry has no slot for the remote.
FailedSendRetryable ==
    [][\A c \in Callers :
          (call[c].addr # "" /\ call'[c].result = "ErrDial")
          => /\ GetPeer(self, buckets', HashBytes(call[c].rcpt)) # <<>>
             /\ \A e \in Load(peers', call[c].rcpt) : FALSE
             /\ \A i \in DOMAIN GetPeer(self, buckets',
                                        HashBytes(call[c].rcpt)) :
                  GetPeer(self, buckets',
                          HashBytes(call[c].rcpt))[i].Address = call[c].addr
      ]_vars

\* C33: when the caller that stored a PendingPeer ends its failure handling
\* (the RemovePeer after a failed dial or a failed establishment) while the
\* registry holds an accepted session under the same key, that session is
\* still in the registry afterwards and has not been closed by the step.
FailureStaysLocal ==
    [][\A c \in Callers :
          (call[c].pend # 0 /\ call'[c].result = "ErrDial")
          => \A e \in Load(peers, call[c].rcpt) :
                e.kind = Established
                => /\ e \in peers'
                   /\ sess'[e.ref].closed = sess[e.ref].closed
      ]_vars

MaxReplies == 3

\* Request: the nonce is drawn, the channel made with a buffer of one and
\* the RequestState stored under (recipient, nonce).
RequestStore ==
    /\ request.pc = "none"
    /\ request' = [request EXCEPT !.pc = "send", !.registered = TRUE]
    /\ Framed("request")

\* Request: n.Send returns.  On an error Request returns it at once, before
\* its deferred Requests.Delete is set up; otherwise it goes to its select.
RequestSendReturns(ok) ==
    /\ request.pc = "send"
    /\ request' = IF ok THEN [request EXCEPT !.pc = "select"]
                  ELSE [request EXCEPT !.pc = "returned",
                                       !.err = "ErrSend"]
    /\ Framed("request")

\* Request: "case res := <-channel", then the deferred Requests.Delete and
\* close(closeSignal).
RequestReceives ==
    /\ request.pc = "select"
    /\ request.data # <<>>
    /\ request' = [request EXCEPT !.pc = "returned",
                                  !.res = Head(request.data),
                                  !.data = Tail(request.data),
                                  !.registered = FALSE]
    /\ Framed("request")

\* Request: "case <-ctx.Done()", then the deferred Requests.Delete and
\* close(closeSignal).
RequestCtxDone ==
    /\ request.pc = "select"
    /\ request' = [request EXCEPT !.pc = "returned",
                                  !.err = "ErrTimeout",
                                  !.registered = FALSE]
    /\ Framed("request")

\* processMessageBody in its own goroutine, up to the send: a body of the
\* request's remote and nonce (matches) finds the RequestState while it is
\* stored and comes to stand at "rq.data <- body"; any other body, and any
\* body once the key is deleted, goes on to the services.
ProcessLoad(matches) ==
    /\ request.pc # "none"
    /\ request.arrived < MaxReplies
    /\ request' =
         IF matches /\ request.registered
         THEN [request EXCEPT !.arrived = @ + 1,
                              !.senders = @ \cup {request.arrived + 1}]
         ELSE [request EXCEPT !.arrived = @ + 1, !.services = @ + 1]
    /\ Framed("request")

\* "rq.data <- body" goes through: the buffer of one has room.  The
\* goroutine returns nil.
ProcessSend(g) ==
    /\ g \in request.senders
    /\ Len(request.data) < 1
    /\ request' = [request EXCEPT !.data = Append(@, g),
                                  !.senders = @ \ {g}]
    /\ Framed("request")

NextReply ==
    \/ RequestStore
    \/ \E ok \in BOOLEAN : RequestSendReturns(ok)
    \/ RequestReceives
    \/ RequestCtxDone
    \/ \E matches \in BOOLEAN : ProcessLoad(matches)
    \/ \E g \in 1..MaxReplies : ProcessSend(g)

\* A goroutine that can run does: a send the buffer has room for goes
\* through, Send returns, and a select with a ready case is left.
FairReply ==
    /\ \A g \in 1..MaxReplies : WF_vars(ProcessSend(g))
    /\ WF_vars(\E ok \in BOOLEAN : RequestSendReturns(ok))
    /\ WF_vars(RequestReceives \/ RequestCtxDone)

SpecReply == Init /\ [][NextReply]_vars /\ FairReply

\* C35: every goroutine of processMessageBody that stands at the send into
\* a request's channel gets past it: whenever some are waiting there, a
\* state follows in which none is, however many bodies of the request's
\* remote and nonce arrived and whether or not Request has returned.
DeliveryTerminates ==
    \A g \in 1..MaxReplies :
        (g \in request.senders) ~> (g \notin request.senders)

====
